---------------------------- MODULE Spec2Model ----------------------------
(***************************************************************************)
(* A model of the retrieval/ranking core of EmailCraft-AI: the tokenizer   *)
(* and Jaccard scorer of utils/simple_matching.py, and the portfolio and   *)
(* template retrieval agents in their three variants (vector store, lite   *)
(* keyword matching, Pinecone).                                            *)
(*                                                                         *)
(* Text is modelled at the level of characters: a Python str is a sequence *)
(* of one-character strings over U+0000..U+00FF (ASCII and Latin-1; text   *)
(* with characters beyond U+00FF is outside the model), so that lower(),   *)
(* strip(), split(), startswith(), the substring test `k in s` and the     *)
(* regular expression of tokenize() are computed as Python computes them.  *)
(*                                                                         *)
(* A lexical score is carried as the rational <<n, d>>, d > 0, that its    *)
(* float stands for; where scores are ordered (list.sort) the floats are   *)
(* computed as IEEE 754 doubles, operation by operation.  A distance or    *)
(* score reported by a vector backend is an integer number of hundredths.  *)
(*                                                                         *)
(* Specifications:                                                         *)
(*   SpecLex    keyword_search and the lite retrieve functions applied to  *)
(*              corpora, requests and top_k drawn from bounded sets.       *)
(*   SpecStore  the portfolio agent of each variant: construction from     *)
(*              data/my_portfolio.csv, add_portfolio_item, process         *)
(*              restart.                                                   *)
(*   Spec       SpecStore plus retrieve.                                   *)
(*   SpecConc   two add_portfolio_item calls interleaved on one agent; the *)
(*              file is written as text, from offset 0 of each handle.     *)
(*   SpecTemplate    retrieve of the template agents, on templates, a      *)
(*                   request and, for the vector and Pinecone agents, an   *)
(*                   answer of the backend.                                *)
(*   SpecExtract     the keyword extraction of the vector and lite portfolio*)
(*                   agents applied to postings, personas and products.    *)
(*   SpecCalls       successive retrieve calls on one agent.               *)
(*   SpecSimilarity  calculate_similarity applied to pairs of token sets.  *)
(*   SpecTokenize    tokenize applied to short texts.                      *)
(*   SpecRank        the ranking of the vector and lite portfolio agents   *)
(*                   on what the store answers.                            *)
(*   SpecRole        the role inference of the portfolio agents on roles   *)
(*                   built from the keys of the role tables.               *)
(*   SpecEmbed       add and query of PineconeCollection on one index      *)
(*                   (utils/vector_store.py).                              *)
(*   SpecCache       the response cache of main.py: POST /generate, POST   *)
(*                   /generate-from-leads and GET /health.                 *)
(*   SpecRate        RateLimitedChatGroq.invoke called by two threads      *)
(*                   (utils/groq_client.py).                               *)
(*                                                                         *)
(* The vector backends are outside the repository.  A query may raise or   *)
(* answer; an answer lists the nearest documents in ascending distance,    *)
(* for any distances.  An add under an id the store holds is ignored,      *)
(* raises, or replaces the stored document.  In the agent specifications   *)
(* failures of the embedding or index service during an upsert are left    *)
(* out; SpecEmbed has them.  The portfolio file is read as pandas reads    *)
(* it; a file of zero bytes occurs in SpecConc, while to_csv writes.       *)
(***************************************************************************)
EXTENDS Integers, Sequences, FiniteSets, TLC

\* ------------------------------------------------------------------------
\* Python str operations
\* ------------------------------------------------------------------------

\* str.lower() on one character: the cased characters of U+0000..U+00FF that
\* lower() changes.
UpperToLower ==
    [A |-> "a", B |-> "b", C |-> "c", D |-> "d", E |-> "e", F |-> "f",
     G |-> "g", H |-> "h", I |-> "i", J |-> "j", K |-> "k", L |-> "l",
     M |-> "m", N |-> "n", O |-> "o", P |-> "p", Q |-> "q", R |-> "r",
     S |-> "s", T |-> "t", U |-> "u", V |-> "v", W |-> "w", X |-> "x",
     Y |-> "y", Z |-> "z"]
    @@ ("À" :> "à") @@ ("Á" :> "á") @@ ("Â" :> "â") @@ ("Ã" :> "ã") @@ ("Ä" :> "ä")
    @@ ("Å" :> "å") @@ ("Æ" :> "æ") @@ ("Ç" :> "ç") @@ ("È" :> "è") @@ ("É" :> "é")
    @@ ("Ê" :> "ê") @@ ("Ë" :> "ë") @@ ("Ì" :> "ì") @@ ("Í" :> "í") @@ ("Î" :> "î")
    @@ ("Ï" :> "ï") @@ ("Ð" :> "ð") @@ ("Ñ" :> "ñ") @@ ("Ò" :> "ò") @@ ("Ó" :> "ó")
    @@ ("Ô" :> "ô") @@ ("Õ" :> "õ") @@ ("Ö" :> "ö") @@ ("Ø" :> "ø") @@ ("Ù" :> "ù")
    @@ ("Ú" :> "ú") @@ ("Û" :> "û") @@ ("Ü" :> "ü") @@ ("Ý" :> "ý") @@ ("Þ" :> "þ")

UpperLetters ==
    {"A","B","C","D","E","F","G","H","I","J","K","L","M",
     "N","O","P","Q","R","S","T","U","V","W","X","Y","Z"}

LowerLetters ==
    {"a","b","c","d","e","f","g","h","i","j","k","l","m",
     "n","o","p","q","r","s","t","u","v","w","x","y","z"}

Digits == {"0","1","2","3","4","5","6","7","8","9"}

\* The characters str.strip() and str.split() treat as whitespace
\* (str.isspace()), of U+0000..U+00FF: \t \n \x0b \f \r \x1c-\x1f, the
\* space, \x85 and \xa0.
Whitespace ==
    {"\t", "\n", "", "\f", "\r", "", "", "", "", " ", "", " "}

\* The characters beyond ASCII that \w matches in a str pattern
\* (str.isalnum()), of U+0080..U+00FF.
Latin1WordChars ==
    {"ª", "²", "³", "µ", "¹", "º", "¼", "½", "¾", "À", "Á", "Â", "Ã", "Ä",
     "Å", "Æ", "Ç", "È", "É", "Ê", "Ë", "Ì", "Í", "Î", "Ï", "Ð", "Ñ", "Ò",
     "Ó", "Ô", "Õ", "Ö", "Ø", "Ù", "Ú", "Û", "Ü", "Ý", "Þ", "ß", "à", "á",
     "â", "ã", "ä", "å", "æ", "ç", "è", "é", "ê", "ë", "ì", "í", "î", "ï",
     "ð", "ñ", "ò", "ó", "ô", "õ", "ö", "ø", "ù", "ú", "û", "ü", "ý", "þ",
     "ÿ"}

SeqMax(S) == CHOOSE x \in S : \A y \in S : y <= x

SeqMin(S) == CHOOSE x \in S : \A y \in S : x <= y

\* s.lower()
Lower(s) ==
    [i \in 1..Len(s) |->
        IF s[i] \in DOMAIN UpperToLower THEN UpperToLower[s[i]] ELSE s[i]]

\* s.strip()
Strip(s) ==
    LET keep == {i \in 1..Len(s) : s[i] \notin Whitespace}
    IN  IF keep = {} THEN <<>> ELSE SubSeq(s, SeqMin(keep), SeqMax(keep))

\* s.startswith(p)
StartsWith(s, p) == Len(s) >= Len(p) /\ SubSeq(s, 1, Len(p)) = p

\* `k in s` for two strings
Contains(s, k) ==
    \E i \in 0..(Len(s) - Len(k)) : SubSeq(s, i + 1, i + Len(k)) = k

\* s.replace(a, b) for single characters a, b
ReplaceChar(s, a, b) == [i \in 1..Len(s) |-> IF s[i] = a THEN b ELSE s[i]]

\* s.split(): the maximal runs of non-whitespace characters, in order.
RECURSIVE SplitFrom(_, _)
SplitFrom(s, p) ==
    LET starts == {i \in (p + 1)..Len(s) : s[i] \notin Whitespace}
    IN  IF starts = {} THEN <<>>
        ELSE LET b == SeqMin(starts)
                 stops == {i \in b..Len(s) : s[i] \in Whitespace}
                 e == IF stops = {} THEN Len(s) ELSE SeqMin(stops) - 1
             IN  <<SubSeq(s, b, e)>> \o SplitFrom(s, e)

Split(s) == SplitFrom(s, 0)

\* sep.join(parts)
RECURSIVE JoinWith(_, _)
JoinWith(sep, parts) ==
    IF parts = <<>> THEN <<>>
    ELSE IF Len(parts) = 1 THEN parts[1]
    ELSE parts[1] \o sep \o JoinWith(sep, Tail(parts))

\* " ".join(parts)
Join(parts) == JoinWith(<<" ">>, parts)

\* None where a str is expected (an Optional[str] field of EmailRequest, a
\* JSON null in a template); a str is a sequence of single characters, so no
\* str equals it.
MissingStr == <<"None">>

\* str(value) inside an f-string.
FormatStr(value) == IF value = MissingStr THEN <<"N","o","n","e">> ELSE value

\* `not value` for an Optional[str].
IsFalsy(value) == value = MissingStr \/ value = <<>>

\* seq[:k] of a Python list, k of either sign
PySliceTo(seq, k) ==
    IF k >= 0
    THEN SubSeq(seq, 1, IF k < Len(seq) THEN k ELSE Len(seq))
    ELSE SubSeq(seq, 1, IF Len(seq) + k > 0 THEN Len(seq) + k ELSE 0)

Range(seq) == {seq[i] : i \in 1..Len(seq)}

\* ------------------------------------------------------------------------
\* Exact arithmetic on scores: <<n, d>> is n/d, d > 0
\* ------------------------------------------------------------------------

RatLT(a, b) == a[1] * b[2] < b[1] * a[2]

RatLE(a, b) == a[1] * b[2] <= b[1] * a[2]

RatEq(a, b) == a[1] * b[2] = b[1] * a[2]

RECURSIVE GCD(_, _)
GCD(m, n) == IF n = 0 THEN m ELSE GCD(n, m % n)

\* n/d in lowest terms (n >= 0, d > 0), which keeps the products small.
RatNorm(a) == LET g == GCD(a[1], a[2]) IN <<a[1] \div g, a[2] \div g>>

RatAdd(a, b) == RatNorm(<<a[1] * b[2] + b[1] * a[2], a[2] * b[2]>>)

RatMin(a, b) == IF RatLE(a, b) THEN a ELSE b

RatMax(a, b) == IF RatLE(a, b) THEN b ELSE a

\* ------------------------------------------------------------------------
\* Python floats (IEEE 754 doubles, round to nearest even), for values >= 0.
\* A float is [m |-> n, e |-> k], the number n * 2^k with n < 2^53 + 1; n is a
\* natural number written as its digits in base 2^15, lowest first, without
\* leading zero digit (<<>> is 0).
\* ------------------------------------------------------------------------

BigBase == 2^15

\* The value of a one-element set; a bound variable of the set's definition
\* holds a value that is computed once.
Value(singleton) == CHOOSE v \in singleton : TRUE

BigTrim(digits) ==
    Value({LET nonzero == {i \in 1..Len(a) : a[i] # 0}
           IN  IF nonzero = {} THEN <<>> ELSE SubSeq(a, 1, SeqMax(nonzero)) :
           a \in {digits \o <<>>}})

\* The digits of 0 <= n < 2^31.
BigFromInt(int) ==
    Value({BigTrim(<<n % BigBase, (n \div BigBase) % BigBase,
                     n \div (BigBase * BigBase)>>) : n \in {int}})

BigDigit(a, i) == IF i <= Len(a) THEN a[i] ELSE 0

\* The digits of a sum are added from the lowest on, n at a time, each with
\* the carry of the one before; `from` is the place, the carry and the digits
\* so far.  A run is done in two halves, so its depth stays small.
RECURSIVE BigAddRun(_, _, _, _)
BigAddRun(a, b, from, n) ==
    Value({IF n = 0 THEN at
           ELSE IF n = 1
           THEN Value({[i |-> at.i + 1, carry |-> t \div BigBase,
                        digits |-> Append(at.digits, t % BigBase)]
                          : t \in {BigDigit(a, at.i) + BigDigit(b, at.i) + at.carry}})
           ELSE BigAddRun(a, b, BigAddRun(a, b, at, n \div 2), n - (n \div 2))
              : at \in {from}})

BigAdd(x, y) ==
    Value({Value({BigTrim(Append(sum.digits, sum.carry))
                     : sum \in {BigAddRun(a, b, [i |-> 1, carry |-> 0, digits |-> <<>>],
                                          IF Len(a) < Len(b) THEN Len(b) ELSE Len(a))}})
              : a \in {x}, b \in {y}})

RECURSIVE BigMulSmallRun(_, _, _, _)
BigMulSmallRun(a, k, from, n) ==
    Value({IF n = 0 THEN at
           ELSE IF n = 1
           THEN Value({[i |-> at.i + 1, carry |-> t \div BigBase,
                        digits |-> Append(at.digits, t % BigBase)]
                          : t \in {a[at.i] * k + at.carry}})
           ELSE BigMulSmallRun(a, k, BigMulSmallRun(a, k, at, n \div 2),
                               n - (n \div 2))
              : at \in {from}})

\* x * small for 0 <= small < 2^15.
BigMulSmall(x, small) ==
    Value({Value({BigTrim(Append(product.digits, product.carry))
                     : product \in {BigMulSmallRun(a, k,
                                        [i |-> 1, carry |-> 0, digits |-> <<>>],
                                        Len(a))}})
              : a \in {x}, k \in {small}})

\* x * BigBase^k.
BigShiftDigits(x, k) == IF x = <<>> THEN <<>> ELSE [i \in 1..k |-> 0] \o x

\* The sum of a * b[j] * BigBase^(j - 1) for j from low to high.
RECURSIVE BigMulFrom(_, _, _, _)
BigMulFrom(a, b, low, high) ==
    IF low > high THEN <<>>
    ELSE IF low = high THEN BigShiftDigits(BigMulSmall(a, b[low]), low - 1)
    ELSE Value({BigAdd(lower, upper)
                   : lower \in {BigMulFrom(a, b, low, (low + high) \div 2)},
                     upper \in {BigMulFrom(a, b, (low + high) \div 2 + 1, high)}})

BigMul(x, y) == Value({BigMulFrom(a, b, 1, Len(b)) : a \in {x}, b \in {y}})

\* x * 2^bits.
BigShl(x, bits) ==
    Value({BigShiftDigits(BigMulSmall(a, 2^(k % 15)), k \div 15) :
           a \in {x}, k \in {bits}})

\* The digits of a quotient are found from the highest on, n at a time, each
\* from the remainder of the one before.
RECURSIVE BigDivSmallRun(_, _, _, _)
BigDivSmallRun(a, q, from, n) ==
    Value({IF n = 0 THEN at
           ELSE IF n = 1
           THEN Value({[i |-> at.i - 1, rem |-> t % q,
                        digits |-> <<t \div q>> \o at.digits]
                          : t \in {at.rem * BigBase + a[at.i]}})
           ELSE BigDivSmallRun(a, q, BigDivSmallRun(a, q, at, n \div 2),
                               n - (n \div 2))
              : at \in {from}})

\* The quotient and the remainder of x by divisor, 0 < divisor < 2^15.
BigDivSmall(x, divisor) ==
    Value({Value({[quot |-> BigTrim(d.digits), rem |-> d.rem]
                     : d \in {BigDivSmallRun(a, q,
                                  [i |-> Len(a), rem |-> 0, digits |-> <<>>],
                                  Len(a))}})
              : a \in {x}, q \in {divisor}})

\* floor(x / 2^bits), and whether a bit was lost.
BigShr(x, bits) ==
    Value({LET drop == k \div 15
           IN  IF drop >= Len(a) THEN [quot |-> <<>>, sticky |-> a # <<>>]
               ELSE Value({[quot |-> d.quot,
                            sticky |-> d.rem # 0 \/ \E i \in 1..drop : a[i] # 0] :
                           d \in {BigDivSmall(SubSeq(a, drop + 1, Len(a)),
                                              2^(k % 15))}}) :
           a \in {x}, k \in {bits}})

BigBitLen(x) ==
    Value({IF a = <<>> THEN 0
           ELSE 15 * (Len(a) - 1)
                + (CHOOSE b \in 1..15 : 2^(b - 1) <= a[Len(a)] /\ a[Len(a)] < 2^b) :
           a \in {x}})

BigOdd(a) == a # <<>> /\ a[1] % 2 = 1

BigLT(x, y) ==
    Value({IF Len(a) # Len(b) THEN Len(a) < Len(b)
           ELSE \E i \in 1..Len(a) :
                    a[i] < b[i] /\ \A j \in (i + 1)..Len(a) : a[j] = b[j] :
           a \in {x}, b \in {y}})

\* The float nearest to digits * 2^exponent, or to a number between that and
\* (digits + 1) * 2^exponent when inexact (digits then has more than 53
\* bits); ties go to the even mantissa.
FloatRound(digits, exponent, inexact) ==
    Value({IF BigBitLen(n) <= 53 THEN [m |-> n, e |-> k]
           ELSE Value({LET q == BigDivSmall(g.quot, 2).quot
                           up == BigOdd(g.quot)
                                 /\ (g.sticky \/ inexact \/ BigOdd(q))
                       IN  [m |-> IF up THEN BigAdd(q, <<1>>) ELSE q,
                            e |-> k + (BigBitLen(n) - 53)] :
                       g \in {BigShr(n, BigBitLen(n) - 54)}}) :
           n \in {digits}, k \in {exponent}})

\* float(n) of an int 0 <= n < 2^31.
FloatOfInt(n) == [m |-> BigFromInt(n), e |-> 0]

\* x / q for a float x and an int 0 < q < 2^15.
FloatDivInt(x, q) ==
    Value({Value({FloatRound(d.quot, a.e - 75, d.rem # 0) :
                  d \in {BigDivSmall(BigShl(a.m, 75), q)}}) :
           a \in {x}})

\* p / q of ints (true division), and the float of a decimal literal p/q.
FloatOfRat(p, q) == FloatDivInt(FloatOfInt(p), q)

FloatMul(x, y) ==
    Value({FloatRound(BigMul(a.m, b.m), a.e + b.e, FALSE) : a \in {x}, b \in {y}})

FloatAdd(x, y) ==
    Value({IF a.m = <<>> THEN b
           ELSE IF b.m = <<>> THEN a
           ELSE LET e == IF a.e < b.e THEN a.e ELSE b.e
                IN  FloatRound(BigAdd(BigShl(a.m, a.e - e), BigShl(b.m, b.e - e)),
                               e, FALSE) :
           a \in {x}, b \in {y}})

FloatLT(x, y) ==
    Value({IF b.m = <<>> THEN FALSE
           ELSE IF a.m = <<>> THEN TRUE
           ELSE LET e == IF a.e < b.e THEN a.e ELSE b.e
                IN  BigLT(BigShl(a.m, a.e - e), BigShl(b.m, b.e - e)) :
           a \in {x}, b \in {y}})

FloatEq(x, y) ==
    Value({~FloatLT(a, b) /\ ~FloatLT(b, a) : a \in {x}, b \in {y}})

\* The float of a score n/d that Python computes as n / d from ints, or reads
\* from a literal.
Float(score) == Value({FloatOfRat(s[1], s[2]) : s \in {score}})

\* SortDescStable without reverse=True: the stable ascending sort.
SortAscStable(seq, keys) ==
    Value({LET n == Len(s)
               rank(i) == 1 + Cardinality({j \in 1..n :
                               \/ FloatLT(k[j], k[i])
                               \/ (FloatEq(k[i], k[j]) /\ j < i)})
           IN  [p \in 1..n |-> s[CHOOSE i \in 1..n : rank(i) = p]] \o <<>> :
           s \in {seq \o <<>>}, k \in {keys \o <<>>}})

\* The stable descending sort of list.sort(key=..., reverse=True) on float
\* keys: an element goes after every element with a greater key and after
\* the earlier elements with an equal key.
SortDescStable(seq, keys) ==
    Value({LET n == Len(s)
               rank(i) == 1 + Cardinality({j \in 1..n :
                               \/ FloatLT(k[i], k[j])
                               \/ (FloatEq(k[i], k[j]) /\ j < i)})
           IN  [p \in 1..n |-> s[CHOOSE i \in 1..n : rank(i) = p]] \o <<>> :
           s \in {seq \o <<>>}, k \in {keys \o <<>>}})

\* ------------------------------------------------------------------------
\* utils/simple_matching.py
\* ------------------------------------------------------------------------

\* \w of the regular expression: what \b separates from everything else.
IsWordChar(c) ==
    c \in LowerLetters \cup Digits \cup UpperLetters \cup {"_"} \cup Latin1WordChars

\* The character class [a-zA-Z0-9+#].
IsTokenChar(c) == c \in LowerLetters \cup Digits \cup UpperLetters \cup {"+", "#"}

\* \b at offset p of s (between s[p] and s[p+1]): exactly one side is a \w.
WordBoundary(s, p) ==
    LET left == p >= 1 /\ IsWordChar(s[p])
        right == p < Len(s) /\ IsWordChar(s[p + 1])
    IN  left # right

\* re.findall(r'\b[a-zA-Z0-9+#]+\b', s) from offset p on: at each offset the
\* longest run of class characters that starts and ends at a \b (the greedy
\* match, backtracked to the last \b), the scan resuming where the match ends.
RECURSIVE FindAllFrom(_, _)
FindAllFrom(s, p) ==
    IF p >= Len(s) THEN {}
    ELSE LET ends == {e \in (p + 1)..Len(s) :
                        /\ \A i \in (p + 1)..e : IsTokenChar(s[i])
                        /\ WordBoundary(s, e)}
         IN  IF WordBoundary(s, p) /\ ends # {}
             THEN {SubSeq(s, p + 1, SeqMax(ends))} \cup FindAllFrom(s, SeqMax(ends))
             ELSE FindAllFrom(s, p + 1)

\* tokenize(text)
tokenize(text) ==
    IF text = <<>> THEN {} ELSE FindAllFrom(Lower(text), 0)

\* The overlap over the sum of the sizes, a score that is not Jaccard's.
overlap_over_sum(query_tokens, doc_tokens) ==
    IF query_tokens = {} \/ doc_tokens = {} THEN <<0, 1>>
    ELSE <<Cardinality(query_tokens \cap doc_tokens),
           Cardinality(query_tokens) + Cardinality(doc_tokens)>>

\* calculate_similarity(query_tokens, doc_tokens)
calculate_similarity(query_tokens, doc_tokens) ==
    IF query_tokens = {} \/ doc_tokens = {} THEN <<0, 1>>
    ELSE LET intersection == Cardinality(query_tokens \cap doc_tokens)
             union == Cardinality(query_tokens \cup doc_tokens)
         IN  IF union = 0 THEN <<0, 1>> ELSE <<intersection, union>>

\* keyword_search(query, documents, text_field, top_k); a document is a record
\* whose field `text` is the field named by text_field.
keyword_search(query, documents, top_k) ==
    LET query_tokens == tokenize(query)
        scored == [i \in 1..Len(documents) |->
                     [doc |-> documents[i],
                      similarity_score |->
                          calculate_similarity(query_tokens,
                                               tokenize(documents[i].text))]]
        keys == [i \in 1..Len(scored) |-> Float(scored[i].similarity_score)]
    IN  PySliceTo(SortDescStable(scored, keys), top_k)

\* ------------------------------------------------------------------------
\* The keyword tables of the portfolio agents
\* ------------------------------------------------------------------------

\* EXCLUDE_KEYWORDS of the vector and of the lite portfolio agent (the same set).
EXCLUDE_KEYWORDS ==
    {
     <<"4","0","1","k">>, <<"b","e","n","e","f","i","t","s">>, <<"b","o","n","u","s">>,
     <<"c","o","l","l","a","b","o","r","a","t","i","v","e">>, <<"c","o","m","m","u","t","e","r">>, <<"c","o","m","p","a","n","y">>,
     <<"c","o","m","p","e","n","s","a","t","i","o","n">>, <<"c","u","l","t","u","r","e">>, <<"d","e","n","t","a","l">>,
     <<"d","y","n","a","m","i","c">>, <<"e","n","v","i","r","o","n","m","e","n","t">>, <<"e","q","u","i","t","y">>,
     <<"f","a","s","t","-","p","a","c","e","d">>, <<"f","l","e","x","i","b","l","e">>, <<"g","y","m">>,
     <<"h","e","a","l","t","h">>, <<"h","y","b","r","i","d">>, <<"i","n","s","u","r","a","n","c","e">>,
     <<"l","u","n","c","h">>, <<"m","e","a","l","s">>, <<"m","e","d","i","c","a","l">>,
     <<"o","f","f">>, <<"o","f","f","i","c","e">>, <<"o","n","s","i","t","e">>,
     <<"o","p","t","i","o","n","s">>, <<"p","a","i","d">>, <<"p","e","r","k","s">>,
     <<"p","t","o">>, <<"r","e","l","o","c","a","t","i","o","n">>, <<"r","e","m","o","t","e">>,
     <<"r","e","t","i","r","e","m","e","n","t">>, <<"s","a","l","a","r","y">>, <<"s","n","a","c","k","s">>,
     <<"s","p","o","n","s","o","r","s","h","i","p">>, <<"s","t","a","r","t","u","p">>, <<"s","t","o","c","k">>,
     <<"t","e","a","m">>, <<"t","i","m","e">>, <<"v","a","c","a","t","i","o","n">>,
     <<"v","i","s","a">>, <<"v","i","s","i","o","n">>, <<"w","e","l","l","n","e","s","s">>
    }

\* EXCLUDE_KEYWORDS of the Pinecone portfolio agent.
PINECONE_EXCLUDE_KEYWORDS ==
    {
     <<"4","0","1","k">>, <<"b","e","n","e","f","i","t","s">>, <<"b","o","n","u","s">>,
     <<"c","o","l","l","a","b","o","r","a","t","i","v","e">>, <<"c","o","m","p","a","n","y">>, <<"c","o","m","p","e","n","s","a","t","i","o","n">>,
     <<"c","u","l","t","u","r","e">>, <<"d","e","n","t","a","l">>, <<"d","y","n","a","m","i","c">>,
     <<"e","n","v","i","r","o","n","m","e","n","t">>, <<"e","q","u","i","t","y">>, <<"f","a","s","t","-","p","a","c","e","d">>,
     <<"f","l","e","x","i","b","l","e">>, <<"g","y","m">>, <<"h","e","a","l","t","h">>,
     <<"h","y","b","r","i","d">>, <<"i","n","s","u","r","a","n","c","e">>, <<"m","e","d","i","c","a","l">>,
     <<"o","f","f">>, <<"o","f","f","i","c","e">>, <<"o","n","s","i","t","e">>,
     <<"o","p","t","i","o","n","s">>, <<"p","a","i","d">>, <<"p","e","r","k","s">>,
     <<"p","t","o">>, <<"r","e","m","o","t","e">>, <<"r","e","t","i","r","e","m","e","n","t">>,
     <<"s","a","l","a","r","y">>, <<"s","t","a","r","t","u","p">>, <<"s","t","o","c","k">>,
     <<"t","e","a","m">>, <<"t","i","m","e">>, <<"v","a","c","a","t","i","o","n">>,
     <<"v","i","s","i","o","n">>, <<"w","e","l","l","n","e","s","s">>
    }

\* REAL_TECH_SKILLS: the skills that show the extraction worked.
REAL_TECH_SKILLS ==
    {
     <<"a","n","g","u","l","a","r">>, <<"a","n","s","i","b","l","e">>, <<"a","w","s">>,
     <<"a","z","u","r","e">>, <<"c","#">>, <<"c","+","+">>,
     <<"c","i","/","c","d">>, <<"c","o","n","f","l","u","e","n","c","e">>, <<"c","s","s">>,
     <<"d","j","a","n","g","o">>, <<"d","o","c","k","e","r">>, <<"e","l","a","s","t","i","c","s","e","a","r","c","h">>,
     <<"e","x","c","e","l">>, <<"f","i","g","m","a">>, <<"f","l","a","s","k">>,
     <<"g","c","p">>, <<"g","i","t">>, <<"g","o">>,
     <<"g","r","a","p","h","q","l">>, <<"h","t","m","l">>, <<"h","u","b","s","p","o","t">>,
     <<"j","a","v","a">>, <<"j","a","v","a","s","c","r","i","p","t">>, <<"j","e","n","k","i","n","s">>,
     <<"j","i","r","a">>, <<"k","a","f","k","a">>, <<"k","u","b","e","r","n","e","t","e","s">>,
     <<"l","i","n","u","x">>, <<"m","o","n","g","o","d","b">>, <<"m","y","s","q","l">>,
     <<"n","o","d","e">>, <<"o","r","a","c","l","e">>, <<"p","h","o","t","o","s","h","o","p">>,
     <<"p","h","p">>, <<"p","o","s","t","g","r","e","s","q","l">>, <<"p","o","w","e","r"," ","b","i">>,
     <<"p","y","t","h","o","n">>, <<"p","y","t","o","r","c","h">>, <<"r","e","a","c","t">>,
     <<"r","e","d","i","s">>, <<"r","u","b","y">>, <<"r","u","s","t">>,
     <<"s","a","l","e","s","f","o","r","c","e">>, <<"s","a","p">>, <<"s","p","r","i","n","g">>,
     <<"s","q","l">>, <<"t","a","b","l","e","a","u">>, <<"t","e","n","s","o","r","f","l","o","w">>,
     <<"t","e","r","r","a","f","o","r","m">>, <<"t","y","p","e","s","c","r","i","p","t">>, <<"v","u","e">>,
     <<"w","o","r","k","d","a","y">>
    }

\* role_skill_map of the vector portfolio agent, in dict order.
role_skill_map ==
    <<
     [key |-> <<"s","o","f","t","w","a","r","e">>,
      skills |-> <<<<"p","y","t","h","o","n">>, <<"j","a","v","a">>, <<"j","a","v","a","s","c","r","i","p","t">>, <<"r","e","a","c","t">>, <<"n","o","d","e",".","j","s">>, <<"s","q","l">>, <<"b","a","c","k","e","n","d">>, <<"f","r","o","n","t","e","n","d">>>>],
     [key |-> <<"e","n","g","i","n","e","e","r">>,
      skills |-> <<<<"p","y","t","h","o","n">>, <<"j","a","v","a">>, <<"j","a","v","a","s","c","r","i","p","t">>, <<"s","q","l">>, <<"d","o","c","k","e","r">>, <<"a","w","s">>>>],
     [key |-> <<"d","e","v","e","l","o","p","e","r">>,
      skills |-> <<<<"p","y","t","h","o","n">>, <<"j","a","v","a">>, <<"j","a","v","a","s","c","r","i","p","t">>, <<"r","e","a","c","t">>, <<"n","o","d","e",".","j","s">>, <<"s","q","l">>>>],
     [key |-> <<"f","u","l","l"," ","s","t","a","c","k">>,
      skills |-> <<<<"r","e","a","c","t">>, <<"n","o","d","e",".","j","s">>, <<"m","o","n","g","o","d","b">>, <<"j","a","v","a","s","c","r","i","p","t">>, <<"t","y","p","e","s","c","r","i","p","t">>>>],
     [key |-> <<"f","r","o","n","t","e","n","d">>,
      skills |-> <<<<"r","e","a","c","t">>, <<"a","n","g","u","l","a","r">>, <<"v","u","e">>, <<"j","a","v","a","s","c","r","i","p","t">>, <<"t","y","p","e","s","c","r","i","p","t">>, <<"c","s","s">>>>],
     [key |-> <<"b","a","c","k","e","n","d">>,
      skills |-> <<<<"p","y","t","h","o","n">>, <<"j","a","v","a">>, <<"n","o","d","e",".","j","s">>, <<"p","o","s","t","g","r","e","s","q","l">>, <<"m","o","n","g","o","d","b">>, <<"a","p","i">>>>],
     [key |-> <<"d","a","t","a"," ","s","c","i","e","n","t","i","s","t">>,
      skills |-> <<<<"p","y","t","h","o","n">>, <<"m","a","c","h","i","n","e"," ","l","e","a","r","n","i","n","g">>, <<"t","e","n","s","o","r","f","l","o","w">>, <<"p","a","n","d","a","s">>, <<"s","q","l">>>>],
     [key |-> <<"d","a","t","a"," ","e","n","g","i","n","e","e","r">>,
      skills |-> <<<<"p","y","t","h","o","n">>, <<"s","q","l">>, <<"s","p","a","r","k">>, <<"a","i","r","f","l","o","w">>, <<"a","w","s">>, <<"e","t","l">>>>],
     [key |-> <<"d","a","t","a"," ","a","n","a","l","y","s","t">>,
      skills |-> <<<<"s","q","l">>, <<"e","x","c","e","l">>, <<"p","y","t","h","o","n">>, <<"t","a","b","l","e","a","u">>, <<"p","o","w","e","r"," ","b","i">>>>],
     [key |-> <<"m","a","c","h","i","n","e"," ","l","e","a","r","n","i","n","g">>,
      skills |-> <<<<"p","y","t","h","o","n">>, <<"t","e","n","s","o","r","f","l","o","w">>, <<"p","y","t","o","r","c","h">>, <<"m","a","c","h","i","n","e"," ","l","e","a","r","n","i","n","g">>>>],
     [key |-> <<"d","e","v","o","p","s">>,
      skills |-> <<<<"d","o","c","k","e","r">>, <<"k","u","b","e","r","n","e","t","e","s">>, <<"j","e","n","k","i","n","s">>, <<"a","w","s">>, <<"t","e","r","r","a","f","o","r","m">>, <<"c","i","/","c","d">>>>],
     [key |-> <<"m","o","b","i","l","e">>,
      skills |-> <<<<"r","e","a","c","t"," ","n","a","t","i","v","e">>, <<"f","l","u","t","t","e","r">>, <<"i","o","s">>, <<"a","n","d","r","o","i","d">>, <<"s","w","i","f","t">>, <<"k","o","t","l","i","n">>>>],
     [key |-> <<"c","l","o","u","d">>,
      skills |-> <<<<"a","w","s">>, <<"a","z","u","r","e">>, <<"g","c","p">>, <<"k","u","b","e","r","n","e","t","e","s">>, <<"d","o","c","k","e","r">>, <<"t","e","r","r","a","f","o","r","m">>>>],
     [key |-> <<"m","a","r","k","e","t","i","n","g">>,
      skills |-> <<<<"s","e","o">>, <<"g","o","o","g","l","e"," ","a","n","a","l","y","t","i","c","s">>, <<"h","u","b","s","p","o","t">>, <<"c","o","n","t","e","n","t">>, <<"s","o","c","i","a","l"," ","m","e","d","i","a">>>>],
     [key |-> <<"d","i","g","i","t","a","l"," ","m","a","r","k","e","t","i","n","g">>,
      skills |-> <<<<"s","e","o">>, <<"p","p","c">>, <<"g","o","o","g","l","e"," ","a","d","s">>, <<"f","a","c","e","b","o","o","k"," ","a","d","s">>, <<"a","n","a","l","y","t","i","c","s">>>>],
     [key |-> <<"c","o","n","t","e","n","t">>,
      skills |-> <<<<"c","o","n","t","e","n","t"," ","w","r","i","t","i","n","g">>, <<"c","o","p","y","w","r","i","t","i","n","g">>, <<"s","e","o">>, <<"c","m","s">>, <<"w","o","r","d","p","r","e","s","s">>>>],
     [key |-> <<"s","o","c","i","a","l"," ","m","e","d","i","a">>,
      skills |-> <<<<"s","o","c","i","a","l"," ","m","e","d","i","a">>, <<"i","n","s","t","a","g","r","a","m">>, <<"t","i","k","t","o","k">>, <<"c","o","n","t","e","n","t"," ","c","r","e","a","t","i","o","n">>>>],
     [key |-> <<"s","a","l","e","s">>,
      skills |-> <<<<"s","a","l","e","s","f","o","r","c","e">>, <<"c","r","m">>, <<"l","e","a","d"," ","g","e","n","e","r","a","t","i","o","n">>, <<"b","2","b">>, <<"n","e","g","o","t","i","a","t","i","o","n">>>>],
     [key |-> <<"a","c","c","o","u","n","t">>,
      skills |-> <<<<"s","a","l","e","s","f","o","r","c","e">>, <<"a","c","c","o","u","n","t"," ","m","a","n","a","g","e","m","e","n","t">>, <<"c","r","m">>, <<"c","l","i","e","n","t"," ","r","e","l","a","t","i","o","n","s">>>>],
     [key |-> <<"b","u","s","i","n","e","s","s"," ","d","e","v","e","l","o","p","m","e","n","t">>,
      skills |-> <<<<"l","e","a","d"," ","g","e","n","e","r","a","t","i","o","n">>, <<"c","r","m">>, <<"s","a","l","e","s">>, <<"p","a","r","t","n","e","r","s","h","i","p","s">>>>],
     [key |-> <<"f","i","n","a","n","c","e">>,
      skills |-> <<<<"e","x","c","e","l">>, <<"f","i","n","a","n","c","i","a","l"," ","m","o","d","e","l","i","n","g">>, <<"a","c","c","o","u","n","t","i","n","g">>, <<"q","u","i","c","k","b","o","o","k","s">>, <<"s","a","p">>>>],
     [key |-> <<"a","c","c","o","u","n","t","a","n","t">>,
      skills |-> <<<<"q","u","i","c","k","b","o","o","k","s">>, <<"e","x","c","e","l">>, <<"g","a","a","p">>, <<"t","a","x">>, <<"b","o","o","k","k","e","e","p","i","n","g">>>>],
     [key |-> <<"a","n","a","l","y","s","t">>,
      skills |-> <<<<"e","x","c","e","l">>, <<"s","q","l">>, <<"f","i","n","a","n","c","i","a","l"," ","a","n","a","l","y","s","i","s">>, <<"m","o","d","e","l","i","n","g">>, <<"r","e","p","o","r","t","i","n","g">>>>],
     [key |-> <<"h","r">>,
      skills |-> <<<<"w","o","r","k","d","a","y">>, <<"r","e","c","r","u","i","t","i","n","g">>, <<"a","t","s">>, <<"e","m","p","l","o","y","e","e"," ","r","e","l","a","t","i","o","n","s">>, <<"h","r","i","s">>>>],
     [key |-> <<"r","e","c","r","u","i","t","e","r">>,
      skills |-> <<<<"l","i","n","k","e","d","i","n">>, <<"a","t","s">>, <<"s","o","u","r","c","i","n","g">>, <<"i","n","t","e","r","v","i","e","w","i","n","g">>, <<"h","i","r","i","n","g">>>>],
     [key |-> <<"t","a","l","e","n","t">>,
      skills |-> <<<<"r","e","c","r","u","i","t","i","n","g">>, <<"t","a","l","e","n","t"," ","a","c","q","u","i","s","i","t","i","o","n">>, <<"a","t","s">>, <<"s","o","u","r","c","i","n","g">>>>],
     [key |-> <<"d","e","s","i","g","n","e","r">>,
      skills |-> <<<<"f","i","g","m","a">>, <<"a","d","o","b","e">>, <<"s","k","e","t","c","h">>, <<"u","i","/","u","x">>, <<"p","h","o","t","o","s","h","o","p">>>>],
     [key |-> <<"u","x">>,
      skills |-> <<<<"f","i","g","m","a">>, <<"u","s","e","r"," ","r","e","s","e","a","r","c","h">>, <<"w","i","r","e","f","r","a","m","i","n","g">>, <<"p","r","o","t","o","t","y","p","i","n","g">>, <<"u","s","a","b","i","l","i","t","y">>>>],
     [key |-> <<"g","r","a","p","h","i","c">>,
      skills |-> <<<<"p","h","o","t","o","s","h","o","p">>, <<"i","l","l","u","s","t","r","a","t","o","r">>, <<"i","n","d","e","s","i","g","n">>, <<"b","r","a","n","d","i","n","g">>, <<"d","e","s","i","g","n">>>>],
     [key |-> <<"o","p","e","r","a","t","i","o","n","s">>,
      skills |-> <<<<"p","r","o","j","e","c","t"," ","m","a","n","a","g","e","m","e","n","t">>, <<"p","r","o","c","e","s","s"," ","i","m","p","r","o","v","e","m","e","n","t">>, <<"e","r","p">>, <<"l","o","g","i","s","t","i","c","s">>>>],
     [key |-> <<"p","r","o","j","e","c","t"," ","m","a","n","a","g","e","r">>,
      skills |-> <<<<"p","r","o","j","e","c","t"," ","m","a","n","a","g","e","m","e","n","t">>, <<"a","g","i","l","e">>, <<"s","c","r","u","m">>, <<"j","i","r","a">>, <<"p","m","p">>>>],
     [key |-> <<"p","r","o","d","u","c","t">>,
      skills |-> <<<<"p","r","o","d","u","c","t"," ","m","a","n","a","g","e","m","e","n","t">>, <<"a","g","i","l","e">>, <<"r","o","a","d","m","a","p">>, <<"u","s","e","r"," ","s","t","o","r","i","e","s">>, <<"j","i","r","a">>>>],
     [key |-> <<"s","u","p","p","l","y"," ","c","h","a","i","n">>,
      skills |-> <<<<"s","u","p","p","l","y"," ","c","h","a","i","n">>, <<"l","o","g","i","s","t","i","c","s">>, <<"i","n","v","e","n","t","o","r","y">>, <<"e","r","p">>, <<"p","r","o","c","u","r","e","m","e","n","t">>>>],
     [key |-> <<"n","u","r","s","e">>,
      skills |-> <<<<"p","a","t","i","e","n","t"," ","c","a","r","e">>, <<"e","m","r">>, <<"c","l","i","n","i","c","a","l">>, <<"n","u","r","s","i","n","g">>, <<"h","e","a","l","t","h","c","a","r","e">>>>],
     [key |-> <<"h","e","a","l","t","h","c","a","r","e">>,
      skills |-> <<<<"e","m","r">>, <<"h","i","p","a","a">>, <<"p","a","t","i","e","n","t"," ","c","a","r","e">>, <<"c","l","i","n","i","c","a","l">>, <<"m","e","d","i","c","a","l">>>>],
     [key |-> <<"m","e","d","i","c","a","l">>,
      skills |-> <<<<"m","e","d","i","c","a","l"," ","c","o","d","i","n","g">>, <<"e","m","r">>, <<"h","e","a","l","t","h","c","a","r","e">>, <<"c","l","i","n","i","c","a","l">>, <<"p","a","t","i","e","n","t">>>>],
     [key |-> <<"t","e","a","c","h","e","r">>,
      skills |-> <<<<"c","u","r","r","i","c","u","l","u","m">>, <<"i","n","s","t","r","u","c","t","i","o","n">>, <<"c","l","a","s","s","r","o","o","m">>, <<"e","d","u","c","a","t","i","o","n">>, <<"t","e","a","c","h","i","n","g">>>>],
     [key |-> <<"i","n","s","t","r","u","c","t","o","r">>,
      skills |-> <<<<"t","r","a","i","n","i","n","g">>, <<"c","u","r","r","i","c","u","l","u","m">>, <<"l","m","s">>, <<"e","-","l","e","a","r","n","i","n","g">>, <<"i","n","s","t","r","u","c","t","i","o","n">>>>],
     [key |-> <<"c","u","s","t","o","m","e","r">>,
      skills |-> <<<<"c","u","s","t","o","m","e","r"," ","s","e","r","v","i","c","e">>, <<"c","r","m">>, <<"z","e","n","d","e","s","k">>, <<"s","u","p","p","o","r","t">>, <<"c","o","m","m","u","n","i","c","a","t","i","o","n">>>>],
     [key |-> <<"s","u","p","p","o","r","t">>,
      skills |-> <<<<"c","u","s","t","o","m","e","r"," ","s","u","p","p","o","r","t">>, <<"t","i","c","k","e","t","i","n","g">>, <<"z","e","n","d","e","s","k">>, <<"t","r","o","u","b","l","e","s","h","o","o","t","i","n","g">>>>]
    >>

\* ROLE_SKILL_MAP of the lite portfolio agent, in dict order.
ROLE_SKILL_MAP ==
    <<
     [key |-> <<"s","o","f","t","w","a","r","e">>,
      skills |-> <<<<"p","y","t","h","o","n">>, <<"j","a","v","a">>, <<"j","a","v","a","s","c","r","i","p","t">>, <<"r","e","a","c","t">>, <<"n","o","d","e",".","j","s">>, <<"s","q","l">>>>],
     [key |-> <<"f","u","l","l"," ","s","t","a","c","k">>,
      skills |-> <<<<"r","e","a","c","t">>, <<"n","o","d","e",".","j","s">>, <<"m","o","n","g","o","d","b">>, <<"j","a","v","a","s","c","r","i","p","t">>, <<"t","y","p","e","s","c","r","i","p","t">>>>],
     [key |-> <<"f","r","o","n","t","e","n","d">>,
      skills |-> <<<<"r","e","a","c","t">>, <<"a","n","g","u","l","a","r">>, <<"v","u","e">>, <<"j","a","v","a","s","c","r","i","p","t">>, <<"t","y","p","e","s","c","r","i","p","t">>, <<"c","s","s">>>>],
     [key |-> <<"b","a","c","k","e","n","d">>,
      skills |-> <<<<"p","y","t","h","o","n">>, <<"j","a","v","a">>, <<"n","o","d","e",".","j","s">>, <<"p","o","s","t","g","r","e","s","q","l">>, <<"m","o","n","g","o","d","b">>, <<"a","p","i">>>>],
     [key |-> <<"d","a","t","a"," ","s","c","i","e","n","t","i","s","t">>,
      skills |-> <<<<"p","y","t","h","o","n">>, <<"m","a","c","h","i","n","e"," ","l","e","a","r","n","i","n","g">>, <<"t","e","n","s","o","r","f","l","o","w">>, <<"p","a","n","d","a","s">>, <<"s","q","l">>>>],
     [key |-> <<"d","a","t","a"," ","e","n","g","i","n","e","e","r">>,
      skills |-> <<<<"p","y","t","h","o","n">>, <<"s","q","l">>, <<"s","p","a","r","k">>, <<"a","i","r","f","l","o","w">>, <<"a","w","s">>, <<"e","t","l">>>>],
     [key |-> <<"d","a","t","a"," ","a","n","a","l","y","s","t">>,
      skills |-> <<<<"s","q","l">>, <<"e","x","c","e","l">>, <<"p","y","t","h","o","n">>, <<"t","a","b","l","e","a","u">>, <<"p","o","w","e","r"," ","b","i">>>>],
     [key |-> <<"m","a","c","h","i","n","e"," ","l","e","a","r","n","i","n","g">>,
      skills |-> <<<<"p","y","t","h","o","n">>, <<"t","e","n","s","o","r","f","l","o","w">>, <<"p","y","t","o","r","c","h">>, <<"m","a","c","h","i","n","e"," ","l","e","a","r","n","i","n","g">>>>],
     [key |-> <<"d","e","v","o","p","s">>,
      skills |-> <<<<"d","o","c","k","e","r">>, <<"k","u","b","e","r","n","e","t","e","s">>, <<"j","e","n","k","i","n","s">>, <<"a","w","s">>, <<"t","e","r","r","a","f","o","r","m">>, <<"c","i","/","c","d">>>>],
     [key |-> <<"m","o","b","i","l","e">>,
      skills |-> <<<<"r","e","a","c","t"," ","n","a","t","i","v","e">>, <<"f","l","u","t","t","e","r">>, <<"i","o","s">>, <<"a","n","d","r","o","i","d">>, <<"s","w","i","f","t">>, <<"k","o","t","l","i","n">>>>],
     [key |-> <<"c","l","o","u","d">>,
      skills |-> <<<<"a","w","s">>, <<"a","z","u","r","e">>, <<"g","c","p">>, <<"k","u","b","e","r","n","e","t","e","s">>, <<"d","o","c","k","e","r">>, <<"t","e","r","r","a","f","o","r","m">>>>],
     [key |-> <<"m","a","r","k","e","t","i","n","g">>,
      skills |-> <<<<"s","e","o">>, <<"g","o","o","g","l","e"," ","a","n","a","l","y","t","i","c","s">>, <<"h","u","b","s","p","o","t">>, <<"c","o","n","t","e","n","t">>, <<"s","o","c","i","a","l"," ","m","e","d","i","a">>>>],
     [key |-> <<"d","i","g","i","t","a","l"," ","m","a","r","k","e","t","i","n","g">>,
      skills |-> <<<<"s","e","o">>, <<"p","p","c">>, <<"g","o","o","g","l","e"," ","a","d","s">>, <<"f","a","c","e","b","o","o","k"," ","a","d","s">>, <<"a","n","a","l","y","t","i","c","s">>>>],
     [key |-> <<"c","o","n","t","e","n","t">>,
      skills |-> <<<<"c","o","n","t","e","n","t"," ","w","r","i","t","i","n","g">>, <<"c","o","p","y","w","r","i","t","i","n","g">>, <<"s","e","o">>, <<"c","m","s">>, <<"w","o","r","d","p","r","e","s","s">>>>],
     [key |-> <<"s","a","l","e","s">>,
      skills |-> <<<<"s","a","l","e","s","f","o","r","c","e">>, <<"c","r","m">>, <<"l","e","a","d"," ","g","e","n","e","r","a","t","i","o","n">>, <<"b","2","b">>, <<"n","e","g","o","t","i","a","t","i","o","n">>>>],
     [key |-> <<"a","c","c","o","u","n","t">>,
      skills |-> <<<<"s","a","l","e","s","f","o","r","c","e">>, <<"a","c","c","o","u","n","t"," ","m","a","n","a","g","e","m","e","n","t">>, <<"c","r","m">>, <<"c","l","i","e","n","t"," ","r","e","l","a","t","i","o","n","s">>>>],
     [key |-> <<"b","u","s","i","n","e","s","s"," ","d","e","v","e","l","o","p","m","e","n","t">>,
      skills |-> <<<<"l","e","a","d"," ","g","e","n","e","r","a","t","i","o","n">>, <<"c","r","m">>, <<"s","a","l","e","s">>, <<"p","a","r","t","n","e","r","s","h","i","p","s">>>>],
     [key |-> <<"f","i","n","a","n","c","e">>,
      skills |-> <<<<"e","x","c","e","l">>, <<"f","i","n","a","n","c","i","a","l"," ","m","o","d","e","l","i","n","g">>, <<"a","c","c","o","u","n","t","i","n","g">>, <<"q","u","i","c","k","b","o","o","k","s">>, <<"s","a","p">>>>],
     [key |-> <<"a","c","c","o","u","n","t","a","n","t">>,
      skills |-> <<<<"q","u","i","c","k","b","o","o","k","s">>, <<"e","x","c","e","l">>, <<"g","a","a","p">>, <<"t","a","x">>, <<"b","o","o","k","k","e","e","p","i","n","g">>>>],
     [key |-> <<"a","n","a","l","y","s","t">>,
      skills |-> <<<<"e","x","c","e","l">>, <<"s","q","l">>, <<"f","i","n","a","n","c","i","a","l"," ","a","n","a","l","y","s","i","s">>, <<"m","o","d","e","l","i","n","g">>, <<"r","e","p","o","r","t","i","n","g">>>>],
     [key |-> <<"h","r">>,
      skills |-> <<<<"w","o","r","k","d","a","y">>, <<"r","e","c","r","u","i","t","i","n","g">>, <<"a","t","s">>, <<"e","m","p","l","o","y","e","e"," ","r","e","l","a","t","i","o","n","s">>, <<"h","r","i","s">>>>],
     [key |-> <<"r","e","c","r","u","i","t","e","r">>,
      skills |-> <<<<"l","i","n","k","e","d","i","n">>, <<"a","t","s">>, <<"s","o","u","r","c","i","n","g">>, <<"i","n","t","e","r","v","i","e","w","i","n","g">>, <<"h","i","r","i","n","g">>>>],
     [key |-> <<"d","e","s","i","g","n","e","r">>,
      skills |-> <<<<"f","i","g","m","a">>, <<"a","d","o","b","e">>, <<"s","k","e","t","c","h">>, <<"u","i","/","u","x">>, <<"p","h","o","t","o","s","h","o","p">>>>],
     [key |-> <<"u","x">>,
      skills |-> <<<<"f","i","g","m","a">>, <<"u","s","e","r"," ","r","e","s","e","a","r","c","h">>, <<"w","i","r","e","f","r","a","m","i","n","g">>, <<"p","r","o","t","o","t","y","p","i","n","g">>, <<"u","s","a","b","i","l","i","t","y">>>>],
     [key |-> <<"o","p","e","r","a","t","i","o","n","s">>,
      skills |-> <<<<"p","r","o","j","e","c","t"," ","m","a","n","a","g","e","m","e","n","t">>, <<"p","r","o","c","e","s","s"," ","i","m","p","r","o","v","e","m","e","n","t">>, <<"e","r","p">>, <<"l","o","g","i","s","t","i","c","s">>>>],
     [key |-> <<"p","r","o","j","e","c","t"," ","m","a","n","a","g","e","r">>,
      skills |-> <<<<"p","r","o","j","e","c","t"," ","m","a","n","a","g","e","m","e","n","t">>, <<"a","g","i","l","e">>, <<"s","c","r","u","m">>, <<"j","i","r","a">>, <<"p","m","p">>>>],
     [key |-> <<"p","r","o","d","u","c","t">>,
      skills |-> <<<<"p","r","o","d","u","c","t"," ","m","a","n","a","g","e","m","e","n","t">>, <<"a","g","i","l","e">>, <<"r","o","a","d","m","a","p">>, <<"u","s","e","r"," ","s","t","o","r","i","e","s">>, <<"j","i","r","a">>>>]
    >>

\* COMMON_SKILL_KEYWORDS: the broad whitelist of the similarity fallback.
COMMON_SKILL_KEYWORDS ==
    {
     <<"a","c","c","o","u","n","t">>, <<"a","c","c","o","u","n","t","i","n","g">>, <<"a","d","o","b","e">>,
     <<"a","d","v","e","r","t","i","s","i","n","g">>, <<"a","g","i","l","e">>, <<"a","n","a","l","y","s","i","s">>,
     <<"a","n","a","l","y","t","i","c","s">>, <<"a","n","d","r","o","i","d">>, <<"a","n","g","u","l","a","r">>,
     <<"a","t","s">>, <<"a","w","s">>, <<"a","z","u","r","e">>,
     <<"b","2","b">>, <<"b","a","c","k","e","n","d">>, <<"b","r","a","n","d","i","n","g">>,
     <<"c","a","m","p","a","i","g","n","s">>, <<"c","o","m","m","u","n","i","c","a","t","i","o","n">>, <<"c","o","n","t","e","n","t">>,
     <<"c","r","m">>, <<"d","e","s","i","g","n">>, <<"d","j","a","n","g","o">>,
     <<"d","o","c","k","e","r">>, <<"e","x","c","e","l">>, <<"f","i","g","m","a">>,
     <<"f","i","n","a","n","c","i","a","l">>, <<"f","l","a","s","k">>, <<"f","r","o","n","t","e","n","d">>,
     <<"f","u","l","l","-","s","t","a","c","k">>, <<"f","u","l","l","s","t","a","c","k">>, <<"g","c","p">>,
     <<"h","i","r","i","n","g">>, <<"h","u","b","s","p","o","t">>, <<"i","l","l","u","s","t","r","a","t","o","r">>,
     <<"i","o","s">>, <<"j","a","v","a">>, <<"j","a","v","a","s","c","r","i","p","t">>,
     <<"j","i","r","a">>, <<"k","o","t","l","i","n">>, <<"k","u","b","e","r","n","e","t","e","s">>,
     <<"l","e","a","d">>, <<"l","e","a","d","e","r","s","h","i","p">>, <<"l","e","a","r","n","i","n","g">>,
     <<"m","a","c","h","i","n","e">>, <<"m","a","n","a","g","e","m","e","n","t">>, <<"m","a","r","k","e","t","i","n","g">>,
     <<"m","o","b","i","l","e">>, <<"m","o","d","e","l","i","n","g">>, <<"m","o","n","g","o","d","b">>,
     <<"m","y","s","q","l">>, <<"n","o","d","e">>, <<"p","h","o","t","o","s","h","o","p">>,
     <<"p","m","p">>, <<"p","o","s","t","g","r","e","s","q","l">>, <<"p","p","c">>,
     <<"p","r","o","j","e","c","t">>, <<"p","y","t","h","o","n">>, <<"p","y","t","o","r","c","h">>,
     <<"q","u","i","c","k","b","o","o","k","s">>, <<"r","e","a","c","t">>, <<"r","e","c","r","u","i","t","i","n","g">>,
     <<"r","e","p","o","r","t","i","n","g">>, <<"s","a","l","e","s">>, <<"s","a","l","e","s","f","o","r","c","e">>,
     <<"s","a","p">>, <<"s","c","r","u","m">>, <<"s","e","o">>,
     <<"s","o","c","i","a","l">>, <<"s","p","r","i","n","g">>, <<"s","q","l">>,
     <<"s","t","r","a","t","e","g","y">>, <<"s","w","i","f","t">>, <<"t","a","l","e","n","t">>,
     <<"t","e","n","s","o","r","f","l","o","w">>, <<"t","y","p","e","s","c","r","i","p","t">>, <<"u","i">>,
     <<"u","x">>, <<"v","u","e">>, <<"w","o","r","k","d","a","y">>
    }

\* default_skills: the generic software skills.
default_skills ==
    <<<<"p","y","t","h","o","n">>, <<"j","a","v","a">>, <<"j","a","v","a","s","c","r","i","p","t">>, <<"r","e","a","c","t">>, <<"s","q","l">>, <<"n","o","d","e",".","j","s">>>>

\* ------------------------------------------------------------------------
\* Inputs of retrieve()
\* ------------------------------------------------------------------------

\* An absent persona or scraped_job_data (Python's None).  A product or an
\* industry is a str; the portfolio agents test it with `if product:`, which
\* does not tell None from "", so both are the empty string here.
None == [none |-> TRUE]

\* [s for s in phrases[:n] if not any(ex in s.lower() for ex in exclude)]
TechPhrases(phrases, n, exclude) ==
    SelectSeq(PySliceTo(phrases, n),
              LAMBDA s : ~(\E ex \in exclude : Contains(Lower(s), ex)))

\* phrase.lower().replace(',', ' ').replace('/', ' ').split()
PhraseWords(phrase) ==
    Range(Split(ReplaceChar(ReplaceChar(Lower(phrase), ",", " "), "/", " ")))

\* The words of the phrases with len(word) > 2 and word not in EXCLUDE_KEYWORDS.
PhraseKeywords(phrases) ==
    UNION {{w \in PhraseWords(phrases[i]) : Len(w) > 2 /\ w \notin EXCLUDE_KEYWORDS} :
           i \in 1..Len(phrases)}

\* The words of product with len(word) > 2.
ProductKeywords(product) == {w \in PhraseWords(product) : Len(w) > 2}

\* The index of the first entry of a role table whose key is a substring of
\* role_lower (the loop's break), 0 when there is none.
FirstRoleMatch(table, role_lower) ==
    LET hits == {i \in 1..Len(table) : Contains(role_lower, table[i].key)}
    IN  IF hits = {} THEN 0 ELSE SeqMin(hits)

\* ------------------------------------------------------------------------
\* agents/portfolio_agent_lite.py
\* ------------------------------------------------------------------------

\* PortfolioRetrievalAgent._extract_filter_keywords
lite_extract_filter_keywords(scraped_job_data, persona, product) ==
    LET from_job ==
            IF scraped_job_data = None THEN {}
            ELSE LET extracted ==
                         PhraseKeywords(TechPhrases(scraped_job_data.skills, 10,
                                                    EXCLUDE_KEYWORDS))
                         \cup PhraseKeywords(TechPhrases(scraped_job_data.keywords, 8,
                                                         EXCLUDE_KEYWORDS))
                     m == FirstRoleMatch(ROLE_SKILL_MAP, Lower(scraped_job_data.role))
                 IN  IF extracted = {} /\ scraped_job_data.role # <<>> /\ m # 0
                     THEN Range(PySliceTo(ROLE_SKILL_MAP[m].skills, 4))
                     ELSE extracted
    IN  from_job \cup ProductKeywords(product)

\* The query text the lite retrieve() builds.
lite_query_text(persona, scraped_job_data, product, industry) ==
    Join((IF scraped_job_data = None THEN <<>>
          ELSE PySliceTo(scraped_job_data.skills, 8)
               \o PySliceTo(scraped_job_data.keywords, 5))
         \o (IF persona = None THEN <<>> ELSE PySliceTo(persona.pain_points, 2))
         \o (IF product = <<>> THEN <<>> ELSE <<product>>)
         \o (IF industry = <<>> THEN <<>> ELSE <<industry>>))

\* The filter keywords that are substrings of the lower-cased techstack.
matched_keywords(filter_keywords, techstack) ==
    {k \in filter_keywords : Contains(Lower(techstack), k)}

\* keyword_boost = min(0.3, len(matched_keywords) * 0.1)
keyword_boost(n) == <<IF n < 3 THEN n ELSE 3, 10>>

\* final_score = similarity + keyword_boost as the float it is: n * 0.1 is a
\* float product, min returns it when it is below 0.3.
final_score_float(similarity, n) ==
    LET product == FloatMul(FloatOfInt(n), FloatOfRat(1, 10))
        boost == IF FloatLT(product, FloatOfRat(3, 10)) THEN product
                 ELSE FloatOfRat(3, 10)
    IN  FloatAdd(Float(similarity), boost)

\* PortfolioRetrievalAgent.retrieve of the lite agent, on its portfolio_items.
\* A returned item is its tech_stack, link and similarity_score; title and
\* description are texts built from tech_stack, outcomes is a fixed text.
lite_retrieve(portfolio_items, top_k, persona, scraped_job_data, product, industry) ==
    IF portfolio_items = <<>> THEN <<>>
    ELSE
    LET filter_keywords == lite_extract_filter_keywords(scraped_job_data, persona, product)
        query_tokens == tokenize(lite_query_text(persona, scraped_job_data,
                                                 product, industry))
        accepted == SelectSeq(portfolio_items,
                        LAMBDA item : filter_keywords = {}
                            \/ matched_keywords(filter_keywords, item.techstack) # {})
        scored_items ==
            [i \in 1..Len(accepted) |->
                Value({[item |-> accepted[i],
                        score |-> RatAdd(similarity, keyword_boost(matched)),
                        key |-> final_score_float(similarity, matched)] :
                       similarity \in {calculate_similarity(query_tokens,
                                                            accepted[i].tokens)},
                       matched \in {Cardinality(matched_keywords(
                                        filter_keywords, accepted[i].techstack))}})]
        keys == [i \in 1..Len(scored_items) |-> scored_items[i].key]
        top_items == PySliceTo(SortDescStable(scored_items, keys), top_k)
    IN  [i \in 1..Len(top_items) |->
            [tech_stack |-> top_items[i].item.techstack,
             link |-> top_items[i].item.link,
             similarity_score |-> RatMin(<<1, 1>>, top_items[i].score)]]

\* ------------------------------------------------------------------------
\* agents/portfolio_agent.py (the vector-store agent)
\* ------------------------------------------------------------------------

\* <<item>> when the condition holds, else nothing: one query_parts.append.
Part(cond, item) == IF cond THEN <<item>> ELSE <<>>

\* The keyword extraction at the head of retrieve(): the query_parts list and
\* the filter_keywords set it ends with.
vector_extract(persona, scraped_job_data, product, industry) ==
    LET job == scraped_job_data
        has_job == job # None
        tech_skills ==
            IF has_job THEN TechPhrases(job.skills, 10, EXCLUDE_KEYWORDS) ELSE <<>>
        tech_keywords ==
            IF has_job THEN TechPhrases(job.keywords, 8, EXCLUDE_KEYWORDS) ELSE <<>>
        tech_responsibilities ==
            IF has_job THEN TechPhrases(job.responsibilities, 3, EXCLUDE_KEYWORDS)
            ELSE <<>>
        extracted == PhraseKeywords(tech_skills) \cup PhraseKeywords(tech_keywords)
        role_lower == IF has_job THEN Lower(job.role) ELSE <<>>
        has_real_skills == extracted \cap REAL_TECH_SKILLS # {}
        infer == has_job /\ job.role # <<>> /\ ~has_real_skills
        m == FirstRoleMatch(role_skill_map, role_lower)
        generic == \/ Contains(role_lower, <<"s","o","f","t","w","a","r","e">>)
                   \/ Contains(role_lower, <<"e","n","g","i","n","e","e","r">>)
                   \/ Contains(role_lower, <<"d","e","v","e","l","o","p","e","r">>)
        inferred ==
            IF m # 0 THEN PySliceTo(role_skill_map[m].skills, 5)
            ELSE IF generic THEN default_skills
            ELSE <<>>
        job_keywords == IF infer THEN Range(inferred) ELSE extracted
        tech_pain_points ==
            IF persona # None
            THEN TechPhrases(persona.pain_points, 2, EXCLUDE_KEYWORDS) ELSE <<>>
    IN  [query_parts |->
             Part(tech_skills # <<>>, Join(PySliceTo(tech_skills, 8)))
             \o Part(tech_keywords # <<>>, Join(PySliceTo(tech_keywords, 5)))
             \o Part(tech_responsibilities # <<>>,
                     Join(PySliceTo(tech_responsibilities, 2)))
             \o Part(infer /\ inferred # <<>>, Join(inferred))
             \o Part(tech_pain_points # <<>>, Join(tech_pain_points))
             \o Part(persona # None /\ persona.value_focus # <<>>,
                     IF persona # None THEN persona.value_focus ELSE <<>>)
             \o Part(product # <<>>, product)
             \o Part(industry # <<>>, industry),
         filter_keywords |-> job_keywords \cup ProductKeywords(product)]

\* n_results = min(self.top_k * 3, 10)
vector_n_results(top_k) == IF top_k * 3 < 10 THEN top_k * 3 ELSE 10

\* The distance below which a candidate without a keyword match may still be
\* taken by the similarity fallback (0.8), in hundredths.
FallbackDistance == 80

\* Whether the ranking loop takes a candidate.
vector_accepts(filter_keywords, techstack, distance) ==
    \/ filter_keywords = {}
    \/ matched_keywords(filter_keywords, techstack) # {}
    \/ /\ distance < FallbackDistance
       /\ \E common_kw \in COMMON_SKILL_KEYWORDS : Contains(Lower(techstack), common_kw)

\* similarity = max(0.0, min(1.0, 1.0 - distance)), the distance in hundredths.
vector_similarity(distance) ==
    LET raw == 100 - distance
    IN  <<IF raw < 0 THEN 0 ELSE IF raw > 100 THEN 100 ELSE raw, 100>>

\* The ranking loop of retrieve() from candidate i of results["ids"][0] on,
\* with the retrieved_items it has so far: a candidate the test refuses is
\* skipped (continue); the loop ends at the first accepted candidate that
\* finds top_k items collected (break); every other candidate is appended.
RECURSIVE vector_loop(_, _, _, _, _)
vector_loop(candidates, i, filter_keywords, top_k, so_far) ==
    Value({IF i > Len(candidates) THEN retrieved_items
           ELSE IF ~vector_accepts(filter_keywords, candidates[i].techstack,
                                   candidates[i].distance)
           THEN vector_loop(candidates, i + 1, filter_keywords, top_k,
                            retrieved_items)
           ELSE IF Len(retrieved_items) >= top_k THEN retrieved_items
           ELSE vector_loop(candidates, i + 1, filter_keywords, top_k,
                            Append(retrieved_items,
                                   [tech_stack |-> candidates[i].techstack,
                                    link |-> candidates[i].link,
                                    similarity_score |->
                                        vector_similarity(candidates[i].distance)]))
              : retrieved_items \in {so_far}})

\* A ranking loop that keeps the last top_k candidates it accepts.
vector_rank_last(candidates, filter_keywords, top_k) ==
    LET accepted == SelectSeq(candidates,
                        LAMBDA c : vector_accepts(filter_keywords,
                                                  c.techstack, c.distance))
        n == IF top_k <= 0 THEN 0
             ELSE IF top_k < Len(accepted) THEN top_k ELSE Len(accepted)
        kept == SubSeq(accepted, Len(accepted) - n + 1, Len(accepted))
    IN  [i \in 1..Len(kept) |->
            [tech_stack |-> kept[i].techstack,
             link |-> kept[i].link,
             similarity_score |-> vector_similarity(kept[i].distance)]]

\* The ranking loop of retrieve() over the candidates the store returned,
\* called with the candidates and the filter keywords.
vector_rank(candidates, filter_keywords, top_k) ==
    vector_loop(candidates, 1, filter_keywords, top_k, <<>>)

\* ------------------------------------------------------------------------
\* agents/portfolio_agent_pinecone.py
\* ------------------------------------------------------------------------

\* The query text of the Pinecone agent's retrieve().
pinecone_query_text(persona, scraped_job_data, product, industry) ==
    LET job == scraped_job_data
    IN  Join((IF job = None THEN <<>>
              ELSE PySliceTo(TechPhrases(job.skills, 10, PINECONE_EXCLUDE_KEYWORDS), 8)
                   \o PySliceTo(TechPhrases(job.keywords, 8,
                                            PINECONE_EXCLUDE_KEYWORDS), 5)
                   \o Part(job.role # <<>>, job.role))
             \o (IF persona = None THEN <<>> ELSE PySliceTo(persona.pain_points, 2))
             \o Part(product # <<>>, product)
             \o Part(industry # <<>>, industry))

\* The formatting loop of the Pinecone agent: every match becomes an item with
\* the score the index reports.  A match's score is 1 - distance (cosine).
pinecone_format(matches) ==
    [i \in 1..Len(matches) |->
        [tech_stack |-> matches[i].techstack,
         link |-> matches[i].link,
         similarity_score |-> <<100 - matches[i].distance, 100>>]]

\* ------------------------------------------------------------------------
\* agents/retrieval_agent_lite.py
\* ------------------------------------------------------------------------

\* dict.get(key, default)
Get(d, key, default) == IF key \in DOMAIN d THEN d[key] ELSE default

\* The fields EmailTemplate requires; performance_score has a default.
EmailTemplateRequired ==
    {"id", "title", "industry", "use_case", "subject_line", "body", "cta"}

\* Whether EmailTemplate(**template) validates: every required field is
\* there and is a str, not None.  A performance_score is a number here.
EmailTemplateValid(template) ==
    /\ EmailTemplateRequired \subseteq DOMAIN template
    /\ \A k \in EmailTemplateRequired : template[k] # MissingStr

\* EmailTemplate(**template): the fields of the schema, the default filled in.
\* A performance_score is a number of tenths (85 is 8.5).
EmailTemplate(template) ==
    [k \in EmailTemplateRequired \cup {"performance_score"} |->
        IF k \in DOMAIN template THEN template[k] ELSE 0]

\* The query text of every template agent:
\* f"{industry} {product} {persona.value_focus} {', '.join(persona.pain_points)}
\*   {persona.communication_style}"
template_query_text(persona, product, industry) ==
    Join(<<industry, product, persona.value_focus,
           JoinWith(<<",", " ">>, persona.pain_points),
           persona.communication_style>>)

\* The searchable text of a template: title, industry, use_case, subject_line
\* and body in an f-string, each defaulting to "".
template_text(template) ==
    Join(<<FormatStr(Get(template, "title", <<>>)),
           FormatStr(Get(template, "industry", <<>>)),
           FormatStr(Get(template, "use_case", <<>>)),
           FormatStr(Get(template, "subject_line", <<>>)),
           FormatStr(Get(template, "body", <<>>))>>)

\* weighted_score = similarity * 0.7 + (performance_score / 10.0) * 0.3, the
\* performance_score defaulting to 5.0.
weighted_score(similarity, template) ==
    RatAdd(<<7 * similarity[1], 10 * similarity[2]>>,
           <<3 * Get(template, "performance_score", 50), 1000>>)

\* weighted_score as the float it is: a quotient, two products and a sum,
\* each rounded.
weighted_score_float(similarity, template) ==
    LET perf_score ==
            FloatDivInt(FloatOfRat(Get(template, "performance_score", 50), 10), 10)
    IN  FloatAdd(FloatMul(Float(similarity), FloatOfRat(7, 10)),
                 FloatMul(perf_score, FloatOfRat(3, 10)))

\* TemplateRetrievalAgent.retrieve of the lite agent, on its templates, for a
\* persona that is present.
template_lite_retrieve(templates, top_k, persona, product, industry) ==
    LET query_tokens == tokenize(template_query_text(persona, product, industry))
        scored_templates ==
            [i \in 1..Len(templates) |->
                Value({[template |-> templates[i],
                        score |-> weighted_score(similarity, templates[i]),
                        key |-> weighted_score_float(similarity, templates[i])] :
                       similarity \in {calculate_similarity(query_tokens,
                                           tokenize(template_text(templates[i])))}})]
        keys == [i \in 1..Len(scored_templates) |-> scored_templates[i].key]
        top_templates == PySliceTo(SortDescStable(scored_templates, keys), top_k)
        built == SelectSeq(top_templates,
                     LAMBDA e : EmailTemplateValid(e.template))
    IN  [i \in 1..Len(built) |->
            [template |-> EmailTemplate(built[i].template),
             similarity_score |->
                 RatMin(<<1, 1>>, RatMax(<<0, 1>>, built[i].score))]]

\* ------------------------------------------------------------------------
\* The template agents' retrieve as they end: agents/retrieval_agent_lite.py,
\* agents/retrieval_agent.py, agents/retrieval_agent_pinecone.py
\* ------------------------------------------------------------------------

Returned(result) == [outcome |-> "returned", result |-> result]

Raised(error) == [outcome |-> "raised", error |-> error, result |-> <<>>]

\* TemplateRetrievalAgent.retrieve of the lite agent as it ends: the query
\* text reads persona.value_focus, which raises for a persona of None.
template_lite_call(templates, top_k, persona, product, industry) ==
    IF persona = None THEN Raised("AttributeError")
    ELSE Returned(template_lite_retrieve(templates, top_k, persona, product, industry))

\* similarity = max(0.0, min(1.0, 1.0 - distance)) of the vector template
\* agent; the same clamp as the portfolio agent's.
template_vector_similarity(distance) == vector_similarity(distance)

\* The index of the last template of the file with the id: the record
\* template_dict = {t["id"]: t for t in templates} keeps under it.
TemplateOfId(templates, id) ==
    LET hits == {i \in 1..Len(templates) : templates[i]["id"] = id}
    IN  IF hits = {} THEN 0 ELSE SeqMax(hits)

\* TemplateRetrievalAgent.retrieve of the vector agent, given the answer of
\* collection.query, which raised or lists matches of ids and distances, and
\* the templates of data/email_templates.json.
template_vector_call(templates, answer, persona) ==
    IF persona = None THEN Raised("AttributeError")
    ELSE IF answer.raised THEN Raised("backend")
    ELSE IF \E i \in 1..Len(templates) : "id" \notin DOMAIN templates[i]
    THEN Raised("KeyError")
    ELSE LET known == SelectSeq(answer.matches,
                          LAMBDA match : TemplateOfId(templates, match.id) # 0)
         IN  IF \E i \in 1..Len(known) :
                    ~EmailTemplateValid(templates[TemplateOfId(templates, known[i].id)])
             THEN Raised("ValidationError")
             ELSE Returned([i \in 1..Len(known) |->
                     [template |->
                          EmailTemplate(templates[TemplateOfId(templates, known[i].id)]),
                      similarity_score |->
                          template_vector_similarity(known[i].distance)]])

\* TemplateRetrievalAgent.retrieve of the Pinecone agent: with the index
\* available, the matches it answers with their raw scores; else the first
\* top_k templates with the score 0.5.
template_pinecone_call(templates, top_k, available, answer, persona) ==
    IF persona = None THEN Raised("AttributeError")
    ELSE IF available
    THEN IF answer.raised THEN Raised("backend")
         ELSE IF \E i \in 1..Len(templates) : "id" \notin DOMAIN templates[i]
         THEN Raised("KeyError")
         ELSE LET known == SelectSeq(answer.matches,
                               LAMBDA match : TemplateOfId(templates, match.id) # 0)
              IN  IF \E i \in 1..Len(known) :
                         ~EmailTemplateValid(
                              templates[TemplateOfId(templates, known[i].id)])
                  THEN Raised("ValidationError")
                  ELSE Returned([i \in 1..Len(known) |->
                          [template |->
                               EmailTemplate(
                                   templates[TemplateOfId(templates, known[i].id)]),
                           similarity_score |-> <<100 - known[i].distance, 100>>]])
    ELSE LET first == PySliceTo(templates, top_k)
         IN  IF \E i \in 1..Len(first) : ~EmailTemplateValid(first[i])
             THEN Raised("ValidationError")
             ELSE Returned([i \in 1..Len(first) |->
                     [template |-> EmailTemplate(first[i]),
                      similarity_score |-> <<1, 2>>]])

\* template.get("id", f"template_{len(ids)}"): the ids the templates are
\* indexed under.
template_ids(templates) ==
    [i \in 1..Len(templates) |->
        Get(templates[i], "id", [prefix |-> "template_", n |-> i - 1])]

\* ------------------------------------------------------------------------
\* The texts and inputs the model draws from
\* ------------------------------------------------------------------------

GoKubernetes == <<"G","o"," ","K","u","b","e","r","n","e","t","e","s">>

KubernetesGo == <<"K","u","b","e","r","n","e","t","e","s"," ","G","o">>

Python == <<"P","y","t","h","o","n">>

LinkX == <<"h","t","t","p","s",":","/","/","x",".","i","o","/","p">>

LinkA == <<"h","t","t","p","s",":","/","/","a",".","i","o">>

LinkB == <<"h","t","t","p",":","/","/","b",".","i","o">>

Technology == <<"T","e","c","h","n","o","l","o","g","y">>

BackendEngineer == <<"B","a","c","k","e","n","d"," ","E","n","g","i","n","e","e","r">>

\* The persona of the end-to-end scenario.
Persona1 ==
    [pain_points |-> <<<<"s","c","a","l","i","n","g">>>>,
     decision_drivers |-> <<>>,
     communication_style |-> <<"d","i","r","e","c","t">>,
     tone |-> <<"p","r","o","f","e","s","s","i","o","n","a","l">>,
     value_focus |-> <<"r","e","l","i","a","b","i","l","i","t","y">>]

\* A posting whose skills name Kubernetes.
JobKubernetes ==
    [role |-> <<"D","e","v","O","p","s"," ","E","n","g","i","n","e","e","r">>,
     skills |-> <<<<"K","u","b","e","r","n","e","t","e","s">>>>,
     keywords |-> <<>>,
     responsibilities |-> <<>>]

\* A posting with two skills, one of them shared by two portfolio texts.
JobPythonKubernetes ==
    [role |-> <<>>,
     skills |-> <<Python, <<"K","u","b","e","r","n","e","t","e","s">>>>,
     keywords |-> <<>>,
     responsibilities |-> <<>>]

\* The arguments of a retrieve() call.
Requests ==
    {[persona |-> None, scraped_job_data |-> None,
      product |-> <<>>, industry |-> <<>>],
     [persona |-> None, scraped_job_data |-> JobKubernetes,
      product |-> <<>>, industry |-> <<>>],
     [persona |-> Persona1, scraped_job_data |-> None,
      product |-> BackendEngineer, industry |-> Technology],
     [persona |-> Persona1, scraped_job_data |-> JobPythonKubernetes,
      product |-> <<>>, industry |-> Technology]}

\* The portfolio rows a corpus is made of.
PortfolioPool ==
    <<[techstack |-> GoKubernetes, link |-> LinkX],
      [techstack |-> Python, link |-> LinkA],
      [techstack |-> KubernetesGo, link |-> LinkB]>>

\* The template records a corpus is made of: the template of the end-to-end
\* scenario (it has no cta), one without a performance_score, one complete.
TemplatePool ==
    <<[id |-> <<"t","1">>, title |-> <<"X">>, industry |-> Technology,
       use_case |-> <<"i","n","t","r","o">>, subject_line |-> <<"s">>,
       body |-> <<"b">>, performance_score |-> 80],
      [id |-> <<"t","2">>, title |-> <<"B","a","c","k","e","n","d">>,
       industry |-> <<"G","e","n","e","r","a","l">>,
       use_case |-> <<"d","e","m","o">>, subject_line |-> <<"s">>,
       body |-> <<"b">>, cta |-> <<"c">>],
      [id |-> <<"t","3">>, title |-> <<"X">>, industry |-> Technology,
       use_case |-> <<"d","e","m","o">>, subject_line |-> <<"s">>,
       body |-> <<"s","c","a","l","i","n","g">>, cta |-> <<"c">>,
       performance_score |-> 95]>>

\* The longest corpus of the lexical check.
MaxDocs == 3

\* The largest top_k.
MaxTopK == 3

\* All sequences over S of length at most n.
RECURSIVE SeqsUpTo(_, _)
SeqsUpTo(S, n) ==
    IF n = 0 THEN {<<>>}
    ELSE LET shorter == SeqsUpTo(S, n - 1)
         IN  shorter \cup {Append(q, x) : q \in shorter, x \in S}

\* The id f"portfolio_{n}".
PortfolioId(n) == [prefix |-> "portfolio_", n |-> n]

\* The id f"portfolio_new_{n}".
PortfolioNewId(n) == [prefix |-> "portfolio_new_", n |-> n]

\* The portfolio_items list the lite agent builds from valid rows: row idx gets
\* the id portfolio_{idx} and its token set.
ItemsOf(rows) ==
    [i \in 1..Len(rows) |->
        [id |-> PortfolioId(i - 1), techstack |-> rows[i].techstack,
         link |-> rows[i].link, tokens |-> tokenize(rows[i].techstack)]]

\* ------------------------------------------------------------------------
\* State
\* ------------------------------------------------------------------------

VARIABLES
    variant,             \* which PortfolioRetrievalAgent module is imported
    top_k,               \* self.top_k
    csv,                 \* data/my_portfolio.csv
    collection,          \* the documents of the vector store / Pinecone index
    portfolio_items,     \* self.portfolio_items of the lite agent
    pinecone_available,  \* PineconeManager.is_available()
    str_hash,            \* hash(techstack) % 10000 in this process
    agent,               \* "none", "ready" (constructed) or "failed" (__init__ raised)
    added,               \* the item of the last add that returned, since construction
    last,                \* the call in progress or just ended, and how it ended
    threads,             \* the position and locals of each concurrent add
    lex_in,              \* the inputs of the function under study, or the
                         \* shared state of the component under study (the
                         \* index, EMAIL_CACHE and the clock, the rate limiter)
    lex_out              \* the function applied and its result, or the last
                         \* call and its answer, or each thread's position

agentVars == <<variant, top_k, csv, collection, portfolio_items,
               pinecone_available, str_hash, agent, added, last, threads>>

lexVars == <<lex_in, lex_out>>

vars == <<agentVars, lexVars>>

\* No agent machine: the values these variables keep in a specification that
\* is about something else.
AgentIdle ==
    /\ variant = "none"
    /\ top_k = 0
    /\ csv = [exists |-> FALSE, has_columns |-> FALSE, rows |-> <<>>]
    /\ collection = <<>>
    /\ portfolio_items = <<>>
    /\ pinecone_available = FALSE
    /\ str_hash = <<>>
    /\ agent = "none"
    /\ added = <<>>
    /\ last = [op |-> "none"]
    /\ threads = <<>>

LexIdle ==
    /\ lex_in = [corpus |-> <<>>, request |-> CHOOSE r \in Requests : TRUE, top_k |-> 0]
    /\ lex_out = [fn |-> "none"]

\* ------------------------------------------------------------------------
\* The lexical path as functions of their inputs
\* ------------------------------------------------------------------------

\* A corpus is a list of pool indices: entry i stands for row i of
\* PortfolioPool and for record i of TemplatePool.
LexInputs ==
    [corpus : SeqsUpTo(1..Len(PortfolioPool), MaxDocs),
     request : Requests,
     top_k : 0..MaxTopK]

LexRows == [i \in 1..Len(lex_in.corpus) |-> PortfolioPool[lex_in.corpus[i]]]

LexDocuments ==
    [i \in 1..Len(lex_in.corpus) |->
        [id |-> i - 1, text |-> PortfolioPool[lex_in.corpus[i]].techstack]]

LexTemplates == [i \in 1..Len(lex_in.corpus) |-> TemplatePool[lex_in.corpus[i]]]

LexQuery ==
    lite_query_text(lex_in.request.persona, lex_in.request.scraped_job_data,
                    lex_in.request.product, lex_in.request.industry)

LexInit ==
    /\ lex_in \in LexInputs
    /\ lex_out = [fn |-> "none"]
    /\ AgentIdle

ApplyKeywordSearch ==
    /\ lex_out.fn = "none"
    /\ lex_out' = [fn |-> "keyword_search",
                   result |-> keyword_search(LexQuery, LexDocuments, lex_in.top_k)]
    /\ UNCHANGED <<lex_in, agentVars>>

ApplyLiteRetrieve ==
    /\ lex_out.fn = "none"
    /\ lex_out' = [fn |-> "lite_retrieve",
                   result |-> lite_retrieve(ItemsOf(LexRows), lex_in.top_k,
                                  lex_in.request.persona,
                                  lex_in.request.scraped_job_data,
                                  lex_in.request.product, lex_in.request.industry)]
    /\ UNCHANGED <<lex_in, agentVars>>

ApplyTemplateLiteRetrieve ==
    /\ lex_out.fn = "none"
    /\ lex_in.request.persona # None
    /\ lex_out' = [fn |-> "template_lite_retrieve",
                   result |-> template_lite_retrieve(LexTemplates, lex_in.top_k,
                                  lex_in.request.persona,
                                  lex_in.request.product, lex_in.request.industry)]
    /\ UNCHANGED <<lex_in, agentVars>>

LexNext ==
    \/ ApplyKeywordSearch
    \/ ApplyLiteRetrieve
    \/ ApplyTemplateLiteRetrieve

SpecLex == LexInit /\ [][LexNext]_vars

\* How many times x occurs in seq.
Count(seq, x) == Cardinality({i \in 1..Len(seq) : seq[i] = x})

\* The corpus document a returned item stands for, per function.
LexCorpusImage ==
    IF lex_out.fn = "keyword_search" THEN LexDocuments
    ELSE IF lex_out.fn = "lite_retrieve"
    THEN [i \in 1..Len(LexRows) |->
            [tech_stack |-> LexRows[i].techstack, link |-> LexRows[i].link]]
    ELSE [i \in 1..Len(LexTemplates) |-> EmailTemplate(LexTemplates[i])]

LexResultImage ==
    LET r == lex_out.result
    IN  IF lex_out.fn = "keyword_search" THEN [i \in 1..Len(r) |-> r[i].doc]
        ELSE IF lex_out.fn = "lite_retrieve"
        THEN [i \in 1..Len(r) |-> [tech_stack |-> r[i].tech_stack, link |-> r[i].link]]
        ELSE [i \in 1..Len(r) |-> r[i].template]

\* C4: on the lexical path (keyword_search, the lite portfolio agent, the lite
\* template agent) a result holds at most top_k items, its similarity_score
\* never increases along the list, and no corpus document is returned more
\* often than the corpus holds it.
C4_LexicalTopKSortedDistinct ==
    lex_out.fn # "none" =>
        LET r == lex_out.result
        IN  /\ Len(r) <= lex_in.top_k
            /\ \A i \in 1..(Len(r) - 1) :
                   RatLE(r[i + 1].similarity_score, r[i].similarity_score)
            /\ \A i \in 1..Len(r) :
                   Count(LexResultImage, LexResultImage[i])
                       <= Count(LexCorpusImage, LexResultImage[i])

\* C4 witness: the lite agent cut a longer corpus down to top_k = 2 items of
\* different scores.
C4_Witness ==
    /\ lex_out.fn = "lite_retrieve"
    /\ lex_in.top_k = 2
    /\ Len(lex_in.corpus) = 3
    /\ Len(lex_out.result) = 2
    /\ RatLT(lex_out.result[2].similarity_score, lex_out.result[1].similarity_score)

\* ------------------------------------------------------------------------
\* data/my_portfolio.csv and the stores
\* ------------------------------------------------------------------------

\* str(float("nan"))
Nan == <<"n","a","n">>

HttpPrefixes ==
    {<<"h","t","t","p",":","/","/">>, <<"h","t","t","p","s",":","/","/">>}

\* A link test that takes any scheme.
any_scheme_link(link) == Contains(link, <<":","/","/">>)

\* link.startswith(("http://", "https://"))
is_http_link(link) == \E prefix \in HttpPrefixes : StartsWith(link, prefix)

\* The cells pd.read_csv reads as NaN (keep_default_na, the default).
NA_VALUES ==
    {<<>>,
     <<"#","N","/","A">>,
     <<"#","N","/","A"," ","N","/","A">>,
     <<"#","N","A">>,
     <<"-","1",".","#","I","N","D">>,
     <<"-","1",".","#","Q","N","A","N">>,
     <<"-","N","a","N">>,
     <<"-","n","a","n">>,
     <<"1",".","#","I","N","D">>,
     <<"1",".","#","Q","N","A","N">>,
     <<"<","N","A",">">>,
     <<"N","/","A">>,
     <<"N","A">>,
     <<"N","U","L","L">>,
     <<"N","a","N">>,
     <<"N","o","n","e">>,
     <<"n","/","a">>,
     <<"n","a","n">>,
     <<"n","u","l","l">>}

\* The blanks the number readers of pd.read_csv skip around a number
\* (isspace of the C locale): the space and \t \n \x0b \f \r.
AsciiSpace == {" ", "\t", "\n", "", "\f", "\r"}

\* The cell without the blanks around it.
StripAscii(cell) ==
    Value({Value({IF keep = {} THEN <<>> ELSE SubSeq(c, SeqMin(keep), SeqMax(keep))
                     : keep \in {{i \in 1..Len(c) : c[i] \notin AsciiSpace}}})
              : c \in {cell}})

\* Whether the text starts with a sign, and the text after its sign.
IsSigned(text) == Value({t # <<>> /\ t[1] \in {"+", "-"} : t \in {text}})

Unsigned(text) == Value({IF IsSigned(t) THEN Tail(t) ELSE t : t \in {text}})

IsDigits(text) == Value({\A i \in 1..Len(t) : t[i] \in Digits : t \in {text}})

\* The index of the first of the characters in the text, or one past its end.
FirstOf(text, chars) ==
    Value({Value({IF hits = {} THEN Len(t) + 1 ELSE SeqMin(hits)
                     : hits \in {{i \in 1..Len(t) : t[i] \in chars}}})
              : t \in {text}})

\* The digits without their leading zeros, and without their trailing zeros.
StripLeadingZeros(digits) ==
    Value({Value({IF nonzero = {} THEN <<"0">>
                  ELSE SubSeq(d, SeqMin(nonzero), Len(d))
                     : nonzero \in {{i \in 1..Len(d) : d[i] # "0"}}})
              : d \in {digits}})

StripTrailingZeros(digits) ==
    Value({Value({IF nonzero = {} THEN <<"0">> ELSE SubSeq(d, 1, SeqMax(nonzero))
                     : nonzero \in {{i \in 1..Len(d) : d[i] # "0"}}})
              : d \in {digits}})

DigitChars == <<"0","1","2","3","4","5","6","7","8","9">>

DigitValue(c) == (CHOOSE k \in 1..10 : DigitChars[k] = c) - 1

\* int(digits) for the digits of a decimal exponent; an exponent of four
\* digits or more counts as 1000, beyond every float64.
DigitsValue(digits) ==
    Value({IF Len(d) > 3 THEN 1000
           ELSE IF Len(d) = 3
           THEN 100 * DigitValue(d[1]) + 10 * DigitValue(d[2]) + DigitValue(d[3])
           ELSE IF Len(d) = 2 THEN 10 * DigitValue(d[1]) + DigitValue(d[2])
           ELSE DigitValue(d[1])
              : d \in {StripLeadingZeros(digits)}})

\* str(n) for 0 <= n < 1000.
NatText(n) ==
    IF n >= 100
    THEN <<DigitChars[(n \div 100) + 1], DigitChars[((n \div 10) % 10) + 1],
           DigitChars[(n % 10) + 1]>>
    ELSE IF n >= 10 THEN <<DigitChars[(n \div 10) + 1], DigitChars[(n % 10) + 1]>>
    ELSE <<DigitChars[n + 1]>>

Zeros(n) == [i \in 1..n |-> "0"]

\* 10^k.
RECURSIVE BigPow10(_)
BigPow10(k) ==
    IF k = 0 THEN <<1>>
    ELSE IF k % 2 = 1 THEN Value({BigMulSmall(p, 10) : p \in {BigPow10(k - 1)}})
    ELSE Value({BigMul(h, h) : h \in {BigPow10(k \div 2)}})

\* floor(x / 10^k), and whether a remainder was lost.
RECURSIVE BigDivPow10(_, _)
BigDivPow10(x, k) ==
    Value({IF k <= 4
           THEN Value({[quot |-> d.quot, sticky |-> d.rem # 0]
                          : d \in {BigDivSmall(a, 10^k)}})
           ELSE Value({Value({[quot |-> high.quot,
                               sticky |-> low.sticky \/ high.sticky]
                                 : high \in {BigDivPow10(low.quot, k - (k \div 2))}})
                          : low \in {BigDivPow10(a, k \div 2)}})
              : a \in {x}})

\* The number a run of decimal digits writes.
RECURSIVE BigOfDigits(_)
BigOfDigits(digits) ==
    Value({IF Len(d) <= 4
           THEN Value({BigFromInt(n)
                          : n \in {LET v[i \in 0..Len(d)] ==
                                           IF i = 0 THEN 0
                                           ELSE 10 * v[i - 1] + DigitValue(d[i])
                                   IN  v[Len(d)]}})
           ELSE Value({Value({BigAdd(BigMul(high, BigPow10(Len(d) - h)), low)
                                 : high \in {BigOfDigits(SubSeq(d, 1, h))},
                                   low \in {BigOfDigits(SubSeq(d, h + 1, Len(d)))}})
                          : h \in {Len(d) \div 2}})
              : d \in {digits}})

\* The decimal digits of a number, four for each division by 10^4.
RECURSIVE BigChunks(_)
BigChunks(x) ==
    IF x = <<>> THEN <<>>
    ELSE Value({BigChunks(d.quot)
                    \o <<DigitChars[(d.rem \div 1000) + 1],
                         DigitChars[((d.rem \div 100) % 10) + 1],
                         DigitChars[((d.rem \div 10) % 10) + 1],
                         DigitChars[(d.rem % 10) + 1]>>
                   : d \in {BigDivSmall(x, 10000)}})

\* str(n) of a number.
BigText(x) == Value({StripLeadingZeros(chunks) : chunks \in {BigChunks(x)}})

\* The digits of INT64_MAX, of -INT64_MIN and of UINT64_MAX.
Int64MaxDigits ==
    <<"9","2","2","3","3","7","2","0","3","6","8","5","4","7","7","5","8","0","7">>

Int64MinDigits ==
    <<"9","2","2","3","3","7","2","0","3","6","8","5","4","7","7","5","8","0","8">>

Uint64MaxDigits ==
    <<"1","8","4","4","6","7","4","4","0","7","3","7","0","9","5","5","1","6","1","5">>

\* Whether the number of a run of digits is above the number of the limit.
Exceeds(digits, limit) ==
    Value({IF Len(d) # Len(limit) THEN Len(d) > Len(limit)
           ELSE \E i \in 1..Len(d) :
                    /\ DigitValue(d[i]) > DigitValue(limit[i])
                    /\ \A j \in 1..(i - 1) : d[j] = limit[j]
              : d \in {StripLeadingZeros(digits)}})

\* The digits a text starts with.
DigitRun(text) ==
    Value({Value({IF others = {} THEN t ELSE SubSeq(t, 1, SeqMin(others) - 1)
                     : others \in {{i \in 1..Len(t) : t[i] \notin Digits}}})
              : t \in {text}})

\* The error of reading a cell as an int64 (str_to_int64 of pd.read_csv):
\* blanks, a sign, digits, blanks.  The digits are read one by one, so the
\* overflow of a long run of digits shows before what follows the run.
str_to_int64(cell) ==
    Value({Value({IF run = <<>> THEN "ERROR_NO_DIGITS"
                  ELSE IF Exceeds(run, IF text[1] = "-" THEN Int64MinDigits
                                       ELSE Int64MaxDigits)
                  THEN "ERROR_OVERFLOW"
                  ELSE IF run # Unsigned(text) THEN "ERROR_INVALID_CHARS"
                  ELSE "0"
                     : run \in {DigitRun(Unsigned(text))}})
              : text \in {StripAscii(cell)}})

\* The error of reading a cell as a uint64 (str_to_uint64): a cell with a
\* minus sign is not read further and yields no error.
str_to_uint64(cell) ==
    Value({IF text # <<>> /\ text[1] = "-" THEN "0"
           ELSE Value({IF run = <<>> THEN "ERROR_NO_DIGITS"
                       ELSE IF Exceeds(run, Uint64MaxDigits) THEN "ERROR_OVERFLOW"
                       ELSE IF run # Unsigned(text) THEN "ERROR_INVALID_CHARS"
                       ELSE "0"
                          : run \in {DigitRun(Unsigned(text))}})
              : text \in {StripAscii(cell)}})

\* Whether a cell has a minus sign (seen_sint), and whether it is a number
\* above INT64_MAX (seen_uint).
SeenSint(cell) == Value({text # <<>> /\ text[1] = "-" : text \in {StripAscii(cell)}})

SeenUint(cell) ==
    Value({/\ text # <<>> /\ text[1] # "-"
           /\ Exceeds(DigitRun(Unsigned(text)), Int64MaxDigits)
              : text \in {StripAscii(cell)}})

\* A cell read as an integer: blanks, a sign, digits, blanks, and a number
\* an int64 or a uint64 holds.
IsIntegerCell(cell) ==
    Value({\/ str_to_int64(c) = "0"
           \/ ~SeenSint(c) /\ str_to_uint64(c) = "0"
              : c \in {cell}})

\* str() of the int64 or uint64 an integer cell is read as; a cell that no
\* integer column holds stays the text it is.
int_text(cell) ==
    Value({IF ~IsIntegerCell(c) THEN c
           ELSE Value({Value({IF text[1] = "-" /\ digits # <<"0">>
                              THEN <<"-">> \o digits
                              ELSE digits
                                 : digits \in {StripLeadingZeros(Unsigned(text))}})
                          : text \in {StripAscii(c)}})
              : c \in {cell}})

\* The significant digits of a run of digits, and the zeros before them.
SignificantDigits(digits) ==
    Value({Value({IF nonzero = {} THEN <<>>
                  ELSE SubSeq(d, SeqMin(nonzero), SeqMax(nonzero))
                     : nonzero \in {{i \in 1..Len(d) : d[i] # "0"}}})
              : d \in {digits}})

LeadingZeros(digits) == Value({FirstOf(d, Digits \ {"0"}) - 1 : d \in {digits}})

\* The value of an exponent: a sign and digits.
ExponentValue(exponent) ==
    Value({IF e = <<>> THEN 0
           ELSE IF e[1] = "-" THEN 0 - DigitsValue(Unsigned(e))
           ELSE DigitsValue(Unsigned(e))
              : e \in {exponent}})

\* The parts of a decimal number without its sign: digits around at most one
\* point (one digit at least) and, when marked, an exponent (a sign, digits).
\* `first` is the power of ten of the first significant digit.
number_of(negative, mantissa, marked, exponent) ==
    Value({Value({Value({[ok |-> ok, negative |-> negative,
                         digits |-> IF ok THEN SignificantDigits(all) ELSE <<>>,
                         first |-> IF ok /\ SignificantDigits(all) # <<>>
                                   THEN point - 1 - LeadingZeros(all) - 1
                                        + ExponentValue(e)
                                   ELSE 0]
                           : ok \in {/\ all # <<>> /\ IsDigits(all)
                                     /\ marked => /\ Unsigned(e) # <<>>
                                                  /\ IsDigits(Unsigned(e))}})
                     : all \in {SubSeq(m, 1, point - 1)
                                   \o SubSeq(m, point + 1, Len(m))}})
              : m \in {mantissa}, e \in {exponent},
                point \in {FirstOf(mantissa, {"."})}})

\* The parts of a cell read as a decimal number: blanks, a sign, the number
\* with its exponent after e or E, blanks.
number_parts(cell) ==
    Value({Value({Value({number_of(text # <<>> /\ text[1] = "-",
                                   SubSeq(body, 1, cut - 1),
                                   cut <= Len(body),
                                   SubSeq(body, cut + 1, Len(body)))
                           : cut \in {FirstOf(body, {"e", "E"})}})
                     : body \in {Unsigned(text)}})
              : text \in {StripAscii(cell)}})

\* The words read as an infinite float64, in any case.
InfWords ==
    {<<"i","n","f">>, <<"+","i","n","f">>, <<"-","i","n","f">>,
     <<"i","n","f","i","n","i","t","y">>,
     <<"+","i","n","f","i","n","i","t","y">>,
     <<"-","i","n","f","i","n","i","t","y">>}

\* The float64 nearest to digits * 2^exponent, or to a number between that
\* and (digits + 1) * 2^exponent when inexact: 53 bits at most, and none
\* below 2^-1074 (the subnormal numbers have fewer bits); ties go to the
\* even mantissa.  A number that is not exact has bits to drop.
float64_round(digits, exponent, inexact) ==
    Value({Value({IF drop <= 0 THEN [m |-> n, e |-> k]
                  ELSE Value({LET q == BigDivSmall(g.quot, 2).quot
                                  up == BigOdd(g.quot)
                                        /\ (g.sticky \/ inexact \/ BigOdd(q))
                              IN  [m |-> IF up THEN BigAdd(q, <<1>>) ELSE q,
                                   e |-> k + drop]
                                 : g \in {BigShr(n, drop - 1)}})
                     : drop \in {IF BigBitLen(n) - 53 > 0 - 1074 - k
                                 THEN BigBitLen(n) - 53 ELSE 0 - 1074 - k}})
              : n \in {digits}, k \in {exponent}})

\* A number from 2^1024 on, which no float64 holds: it stands for inf.
Float64Inf == [m |-> <<1>>, e |-> 1024]

IsInf(x) == Value({a.m # <<>> /\ BigBitLen(a.m) + a.e > 1024 : a \in {x}})

\* float() of a decimal number: the float64 nearest to the number that the
\* digits write when the first of them counts 10^first.  The number is the
\* digits times a power of ten, or the digits by a power of ten, taken with
\* 64 bits or more.  A number from 1e401 on is beyond every float64, one
\* below 1e-400 is nearer to 0 than to any other.
float64_of(digits, first) ==
    Value({Value({
        IF d = <<>> \/ power < 0 - 400 THEN [m |-> <<>>, e |-> 0]
        ELSE IF power > 400 THEN Float64Inf
        ELSE Value({Value({Value({float64_round(q.quot, 0 - shift, q.sticky)
                : q \in {IF power - Len(d) + 1 >= 0
                         THEN [quot |-> BigMul(n, BigPow10(power - Len(d) + 1)),
                               sticky |-> FALSE]
                         ELSE BigDivPow10(BigShl(n, shift), Len(d) - 1 - power)}})
                : shift \in {IF power - Len(d) + 1 >= 0 THEN 0
                             ELSE IF 4 * (Len(d) - 1 - power) + 64 > BigBitLen(n)
                             THEN 4 * (Len(d) - 1 - power) + 64 - BigBitLen(n)
                             ELSE 0}})
                : n \in {BigOfDigits(d)}})
            : d \in {SubSeq(all, LeadingZeros(all) + 1, Len(all))},
              power \in {first - LeadingZeros(all)}})
        : all \in {digits}})

\* floor(x * 10^scale) of a float64 x > 0, and whether a fraction was lost.
FloatScaled(x, scale) ==
    Value({IF s >= 0
           THEN Value({IF a.e >= 0 THEN [quot |-> BigShl(n, a.e), sticky |-> FALSE]
                       ELSE BigShr(n, 0 - a.e)
                          : n \in {BigMul(a.m, BigPow10(s))}})
           ELSE BigDivPow10(BigShl(a.m, a.e), 0 - s)
              : a \in {x}, s \in {scale}})

\* The run of k digits that float() reads back as x, with the power of ten
\* of its first digit, if there is one: of the k digits the decimal expansion
\* of x starts with and the next number of k digits, the one that reads back
\* as x, and of two that do the nearer to x (the even one when they are as
\* near).  The expansion has more than k digits.
digits_of_length(x, expansion, first, sticky, k) ==
    Value({Value({Value({
        IF low \in back /\ (high \notin back \/ nearer_low)
        THEN [ok |-> TRUE, digits |-> low, first |-> first]
        ELSE [ok |-> high \in back, digits |-> high,
              first |-> first + Len(high) - k]
            : back \in {{run \in IF exact THEN {low} ELSE {low, high} :
                            FloatEq(float64_of(run, first + Len(run) - k), x)}},
              nearer_low \in {\/ DigitValue(rest[1]) < 5
                              \/ /\ rest[1] = "5"
                                 /\ ~sticky
                                 /\ \A i \in 2..Len(rest) : rest[i] = "0"
                                 /\ DigitValue(low[k]) % 2 = 0}})
            : high \in {BigText(BigAdd(BigOfDigits(low), <<1>>))},
              exact \in {~sticky /\ \A i \in 1..Len(rest) : rest[i] = "0"}})
        : low \in {SubSeq(expansion, 1, k)},
          rest \in {SubSeq(expansion, k + 1, Len(expansion))}})

\* The shortest run of digits that float() reads back as x, of low to high
\* digits: when k digits read back as x, so do more, which halves the search.
\* 17 digits always read back.
RECURSIVE shortest_digits(_, _, _, _, _, _)
shortest_digits(x, expansion, first, sticky, low, high) ==
    Value({IF low = high THEN run
           ELSE IF run.ok
           THEN shortest_digits(x, expansion, first, sticky, low, (low + high) \div 2)
           ELSE shortest_digits(x, expansion, first, sticky,
                                (low + high) \div 2 + 1, high)
              : run \in {digits_of_length(x, expansion, first, sticky,
                                          (low + high) \div 2)}})

\* The digits of repr(x) of a float64 x > 0 below 2^1024, and the power of
\* ten of the first of them.  The expansion is that of x * 10^scale, with 19
\* to 21 digits: 2^(bits - 1) <= x, and log10 of 2 is 0.30103.
float64_digits(x) ==
    Value({Value({Value({Value({
        shortest_digits(a, expansion, Len(expansion) - 1 - scale, scaled.sticky,
                        1, 17)
            : expansion \in {BigText(scaled.quot)}})
            : scaled \in {FloatScaled(a, scale)}})
            : scale \in {19 - (((bits + 1099) * 30103) \div 100000 - 331)}})
        : a \in {x}, bits \in {BigBitLen(x.m) + x.e}})

\* repr() of a float64 x > 0 from its digits and the power of ten of the
\* first of them: digits with a point from 0.0001 up to 1e16, else the
\* exponent form.
repr_text(digits, first) ==
    IF first >= 16 \/ first < 0 - 4
    THEN <<digits[1]>>
         \o (IF Len(digits) > 1 THEN <<".">> \o Tail(digits) ELSE <<>>)
         \o <<"e", IF first < 0 THEN "-" ELSE "+">>
         \o (LET n == IF first < 0 THEN 0 - first ELSE first
             IN  IF n < 10 THEN <<"0">> \o NatText(n) ELSE NatText(n))
    ELSE IF first < 0
    THEN <<"0", ".">> \o Zeros(0 - first - 1) \o digits
    ELSE IF Len(digits) <= first + 1
    THEN digits \o Zeros(first + 1 - Len(digits)) \o <<".", "0">>
    ELSE SubSeq(digits, 1, first + 1) \o <<".">>
         \o SubSeq(digits, first + 2, Len(digits))

\* repr() of the float64 nearest to the number the digits write when the
\* first of them counts 10^first: the shortest digits that read back as that
\* float64, so 9007199254740993 comes back as 9007199254740992.0; 0.0 for
\* a number nearer to 0 than to 5e-324, inf for one beyond every float64.
float_repr(digits, first) ==
    Value({IF x.m = <<>> THEN <<"0", ".", "0">>
           ELSE IF IsInf(x) THEN <<"i","n","f">>
           ELSE Value({repr_text(StripTrailingZeros(r.digits), r.first)
                          : r \in {float64_digits(x)}})
              : x \in {float64_of(digits, first)}})

\* A cell read as a float64: a decimal number that does not overflow, or
\* one of the words.
IsFloatCell(cell) ==
    Value({\/ Value({/\ parts.ok
                     /\ ~IsInf(float64_of(parts.digits, parts.first))
                        : parts \in {number_parts(c)}})
           \/ Lower(c) \in InfWords
              : c \in {cell}})

\* str() of the float64 a numeric cell is read as: "007" gives 7.0, "1.50"
\* gives 1.5, "-5" gives -5.0 and "1e3" gives 1000.0.
float_text(cell) ==
    Value({IF Lower(c) \in InfWords
           THEN (IF c[1] = "-" THEN <<"-">> ELSE <<>>) \o <<"i","n","f">>
           ELSE Value({(IF parts.negative THEN <<"-">> ELSE <<>>)
                           \o Value({float_repr(digits, first)
                                        : digits \in {parts.digits},
                                          first \in {parts.first}})
                          : parts \in {number_parts(c)}})
              : c \in {cell}})

\* A cell read as a boolean: true or false in any case.
IsBoolCell(cell) ==
    Lower(cell) \in {<<"t","r","u","e">>, <<"f","a","l","s","e">>}

\* str() of the bool.
bool_text(cell) ==
    IF Lower(cell) = <<"t","r","u","e">> THEN <<"T","r","u","e">>
    ELSE <<"F","a","l","s","e">>

\* The type pd.read_csv gives a column, tried in the order int64, float64,
\* bool, object; a cell of NA_VALUES is NaN and is not read.  The cells are
\* read as int64 one after the other up to the first that is none.  When that
\* one is a number beyond int64, the cells are read as uint64 in the same
\* way: a number beyond uint64 leaves the column as text; a column of
\* numbers of which one is above INT64_MAX is uint64, but with a NaN or a
\* minus sign in it no numeric type holds it and it is left as it is, its NA
\* cells too; a minus sign without a number above INT64_MAX leaves text.  In
\* every other case the column is float64 when all its cells are numbers,
\* else bool when all are booleans, else text.  An int64 column with a NaN
\* is cast to float64.
column_dtype(cells) ==
    Value({Value({Value({Value({
        IF not_int64 = {}
        THEN (IF present = 1..Len(c) THEN "int64" ELSE "int64 as float64")
        ELSE IF /\ str_to_int64(c[SeqMin(not_int64)]) = "ERROR_OVERFLOW"
                /\ not_uint64 # {}
                /\ str_to_uint64(c[SeqMin(not_uint64)]) = "ERROR_OVERFLOW"
        THEN "object"
        ELSE IF /\ str_to_int64(c[SeqMin(not_int64)]) = "ERROR_OVERFLOW"
                /\ not_uint64 = {}
        THEN (IF /\ \E i \in present : SeenUint(c[i])
                 /\ \/ present # 1..Len(c)
                    \/ \E i \in present : SeenSint(c[i])
              THEN "as it is"
              ELSE IF \E i \in present : SeenSint(c[i]) THEN "object"
              ELSE "uint64")
        ELSE IF \A i \in present : IsFloatCell(c[i]) THEN "float64"
        ELSE IF \A i \in present : IsBoolCell(c[i]) THEN "bool"
        ELSE "object"
            : not_uint64 \in {IF not_int64 = {} THEN {}
                              ELSE {i \in present : str_to_uint64(c[i]) # "0"}}})
            : not_int64 \in {{i \in present : str_to_int64(c[i]) # "0"}}})
            : present \in {{i \in 1..Len(c) : c[i] \notin NA_VALUES}}})
        : c \in {cells \o <<>>}})

\* str(value) of each cell of a column as pd.read_csv yields it: the number
\* of an int64 or uint64 column, the float64 of a float64 column, the bool of
\* a bool column, else the text of the cell; a cell of NA_VALUES is NaN.
read_column(cells) ==
    Value({Value({
        [i \in 1..Len(c) |->
            IF dtype = "as it is" THEN c[i]
            ELSE IF c[i] \in NA_VALUES THEN Nan
            ELSE IF dtype \in {"int64", "uint64"} THEN int_text(c[i])
            ELSE IF dtype \in {"int64 as float64", "float64"}
            THEN float_text(IF dtype = "float64" THEN c[i] ELSE int_text(c[i]))
            ELSE IF dtype = "bool" THEN bool_text(c[i])
            ELSE c[i]] \o <<>>
            : dtype \in {column_dtype(c)}})
        : c \in {cells \o <<>>}})

\* df = pd.read_csv(path): the rows of the frame, each cell as str() shows
\* its value.
read_csv(rows) ==
    Value({[i \in 1..Len(rows) |->
               [techstack |-> columns[1][i], link |-> columns[2][i]]]
              : columns \in {[k \in 1..2 |->
                                 read_column([i \in 1..Len(rows) |->
                                     IF k = 1 THEN rows[i].techstack
                                     ELSE rows[i].link])] \o <<>>}})

\* df.to_csv(path, index=False): NaN is written as an empty cell, every other
\* value as str() shows it.
to_csv(frame) ==
    [i \in 1..Len(frame) |->
        [techstack |-> IF frame[i].techstack = Nan THEN <<>> ELSE frame[i].techstack,
         link |-> IF frame[i].link = Nan THEN <<>> ELSE frame[i].link]]

\* str(row[column]).strip() of a cell of the frame.
cell_text(value) == Strip(value)

\* Whether the loading loop keeps a row of the frame.
valid_row(row) ==
    LET techstack == cell_text(row.techstack)
        link == cell_text(row.link)
    IN  /\ techstack # <<>> /\ techstack # Nan
        /\ link # <<>> /\ link # Nan
        /\ is_http_link(link)

\* The loading loop over the frame from row idx on: a kept row becomes the
\* document portfolio_{idx}, a skipped row leaves its index unused.
RECURSIVE load_from(_, _)
load_from(frame, idx) ==
    IF idx >= Len(frame) THEN <<>>
    ELSE (IF valid_row(frame[idx + 1])
          THEN <<[id |-> PortfolioId(idx),
                  techstack |-> cell_text(frame[idx + 1].techstack),
                  link |-> cell_text(frame[idx + 1].link)]>>
          ELSE <<>>)
         \o load_from(frame, idx + 1)

\* The documents the loaders take from the rows of the file.
load_rows(rows) == Value({load_from(frame, 0) : frame \in {read_csv(rows)}})

\* The lite agent's item for a document.
lite_item(doc) ==
    [id |-> doc.id, techstack |-> doc.techstack, link |-> doc.link,
     tokens |-> tokenize(doc.techstack)]

\* Whether the store holds a document under the id.
HasId(store, id) == \E i \in 1..Len(store) : store[i].id = id

\* An upsert of one document: it replaces the document of the same id.
Upsert1(store, doc) ==
    IF HasId(store, doc.id)
    THEN [i \in 1..Len(store) |-> IF store[i].id = doc.id THEN doc ELSE store[i]]
    ELSE Append(store, doc)

\* PineconeManager.upsert of a batch.
RECURSIVE Upsert(_, _)
Upsert(store, docs) ==
    IF docs = <<>> THEN store
    ELSE Upsert(Upsert1(store, Head(docs)), Tail(docs))

\* What collection.add can do with the id: a fresh id is added; for an id the
\* store already holds, ChromaDB ignores the document or raises, depending on
\* its version, and the Pinecone collection replaces the stored one.
store_add_outcomes(store, id) ==
    IF HasId(store, id) THEN {"ignored", "raised", "replaced"} ELSE {"added"}

\* read_csv, concat with the new row, to_csv: the old rows are written back
\* as they were parsed, and the file gets the two columns if it lacked them
\* (the cells of its old rows then are empty).
csv_append(file, techstack, link) ==
    Value({[exists |-> TRUE, has_columns |-> TRUE,
            rows |-> Append(to_csv(frame), [techstack |-> techstack, link |-> link])]
              : frame \in {read_csv(file.rows)}})

\* The checks at the head of add_portfolio_item: the error raised, or "none".
add_error(techstack, link) ==
    IF Strip(techstack) = <<>> THEN "ValueError"
    ELSE IF ~is_http_link(link) THEN "ValueError"
    ELSE "none"

\* ------------------------------------------------------------------------
\* The portfolio agent: inputs
\* ------------------------------------------------------------------------

LinkFtp == <<"f","t","p",":","/","/","x",".","i","o">>

Blank == <<" "," ">>

\* A row of a file without the Techstack and Links columns, and a row whose
\* cells are empty.
BlankRow == [techstack |-> <<>>, link |-> <<>>]

\* The rows a file is made of: two valid ones, one without a techstack, one
\* whose link is no http(s) link and one whose techstack is the text NA.
RowPool ==
    {[techstack |-> Python, link |-> LinkA],
     [techstack |-> KubernetesGo, link |-> LinkB],
     [techstack |-> <<>>, link |-> LinkB],
     [techstack |-> Python, link |-> LinkFtp],
     [techstack |-> <<"N","A">>, link |-> LinkA]}

\* The most rows of the file the agent starts with.
MaxCsvRows == 2

\* The most rows and documents the file and the stores grow to.
MaxRows == 3

\* The files the agent can find: none, one without the columns, and files
\* with the columns and any rows.
CsvFiles ==
    {[exists |-> FALSE, has_columns |-> FALSE, rows |-> <<>>],
     [exists |-> TRUE, has_columns |-> FALSE, rows |-> <<BlankRow>>]}
    \cup {[exists |-> TRUE, has_columns |-> TRUE, rows |-> r] :
            r \in SeqsUpTo(RowPool, MaxCsvRows)}

\* The arguments of add_portfolio_item.
AddTechstacks == {GoKubernetes, Python, Blank, <<>>}

AddLinks == {LinkX, LinkFtp}

\* The values of self.top_k: the smallest and the default.
TopKs == {1, 3}

\* hash(techstack) % 10000 is fixed within a process and differs between
\* processes (string hashing is salted); two of its values.
HashResidues == {0, 9999}

HashFunctions == [{t \in AddTechstacks : Strip(t) # <<>>} -> HashResidues]

\* The distances a store reports, in hundredths: near, beyond the fallback
\* distance, and beyond 1 (a negative cosine score).
Distances == {20, 90, 150}

\* All orders of a set.
RECURSIVE Perms(_)
Perms(S) ==
    IF S = {} THEN {<<>>}
    ELSE UNION {{<<x>> \o p : p \in Perms(S \ {x})} : x \in S}

\* What a nearest-neighbour query for n results can answer on the store: for
\* every distance of every document, the n nearest in ascending distance.
StoreAnswers(store, n) ==
    LET N == Len(store)
        m == IF n < N THEN n ELSE N
    IN  UNION {{[i \in 1..m |->
                    [id |-> store[p[i]].id,
                     techstack |-> store[p[i]].techstack,
                     link |-> store[p[i]].link,
                     distance |-> d[p[i]]]] :
                p \in {q \in Perms(1..N) :
                         \A i \in 1..(N - 1) : d[q[i]] <= d[q[i + 1]]}} :
               d \in [1..N -> Distances]}

\* ------------------------------------------------------------------------
\* The portfolio agent: construction, add_portfolio_item, retrieve
\* ------------------------------------------------------------------------

Idle == [op |-> "none"]

Init ==
    /\ variant \in {"vector", "lite", "pinecone"}
    /\ top_k \in TopKs
    /\ csv \in CsvFiles
    /\ collection = <<>>
    /\ portfolio_items = <<>>
    /\ pinecone_available \in (IF variant = "pinecone" THEN BOOLEAN ELSE {FALSE})
    /\ str_hash \in (IF pinecone_available THEN HashFunctions ELSE {<<>>})
    /\ agent = "none"
    /\ added = <<>>
    /\ last = Idle
    /\ threads = <<>>
    /\ LexIdle

Constructed(outcome) == [op |-> "construct", outcome |-> outcome]

\* What collection.count() can return: the number of documents, and for the
\* Pinecone collection 0 when describe_index_stats raises.
collection_counts(store) == {Len(store), 0}

\* The store as get_collection hands it over: as it was, or empty, when the
\* Pinecone collection finds its index with another dimension than its
\* embeddings and deletes and recreates it (the dimension the index was made
\* with is not the program's).
get_collection(store) == {store, <<>>}

\* PortfolioRetrievalAgent.__init__ of the vector agent: a collection that
\* counts 0 is filled from the file, and a file that gives nothing raises.
ConstructVector ==
    /\ variant = "vector" /\ agent = "none" /\ last = Idle
    /\ \E opened \in get_collection(collection) :
       \E count \in collection_counts(opened) :
           IF count # 0
           THEN agent' = "ready" /\ last' = Constructed("ready")
                /\ collection' = opened
           ELSE IF ~csv.exists
           THEN agent' = "failed" /\ last' = Constructed("FileNotFoundError")
                /\ collection' = opened
           ELSE IF ~csv.has_columns \/ csv.rows = <<>> \/ load_rows(csv.rows) = <<>>
           THEN agent' = "failed" /\ last' = Constructed("ValueError")
                /\ collection' = opened
           ELSE agent' = "ready" /\ last' = Constructed("ready")
                /\ collection' = Upsert(opened, load_rows(csv.rows))
    /\ UNCHANGED <<variant, top_k, csv, portfolio_items, pinecone_available,
                   str_hash, added, threads, lexVars>>

\* PortfolioRetrievalAgent.__init__ of the lite agent.
ConstructLite ==
    /\ variant = "lite" /\ agent = "none" /\ last = Idle
    /\ portfolio_items' =
           IF csv.exists /\ csv.has_columns
           THEN LET docs == load_rows(csv.rows)
                IN  [i \in 1..Len(docs) |-> lite_item(docs[i])]
           ELSE <<>>
    /\ agent' = "ready" /\ last' = Constructed("ready")
    /\ UNCHANGED <<variant, top_k, csv, collection, pinecone_available,
                   str_hash, added, threads, lexVars>>

\* PortfolioRetrievalAgent.__init__ of the Pinecone agent.
ConstructPinecone ==
    /\ variant = "pinecone" /\ agent = "none" /\ last = Idle
    /\ collection' =
           IF pinecone_available /\ csv.exists /\ csv.has_columns
           THEN Upsert(collection, load_rows(csv.rows))
           ELSE collection
    /\ agent' = "ready" /\ last' = Constructed("ready")
    /\ UNCHANGED <<variant, top_k, csv, portfolio_items, pinecone_available,
                   str_hash, added, threads, lexVars>>

\* The process ends and a new one starts: the file and the vector store stay,
\* the agent object and the hash salt go.  The index the next construction
\* builds stays within the bound.
Restart ==
    /\ agent # "none" /\ last = Idle
    /\ (variant = "pinecone" /\ pinecone_available /\ csv.exists /\ csv.has_columns)
           => Len(Upsert(collection, load_rows(csv.rows))) <= MaxRows
    /\ agent' = "none"
    /\ portfolio_items' = <<>>
    /\ added' = <<>>
    /\ str_hash' \in (IF pinecone_available THEN HashFunctions ELSE {<<>>})
    /\ UNCHANGED <<variant, top_k, csv, collection, pinecone_available, last,
                   threads, lexVars>>

\* PineconeManager.delete_namespace: every vector of the namespace goes.
DeleteNamespace ==
    /\ variant = "pinecone" /\ pinecone_available /\ last = Idle
    /\ collection' = <<>>
    /\ UNCHANGED <<variant, top_k, csv, portfolio_items, pinecone_available,
                   str_hash, agent, added, last, threads, lexVars>>

\* The caller takes the result of the call.
Return ==
    /\ last # Idle
    /\ last' = Idle
    /\ UNCHANGED <<variant, top_k, csv, collection, portfolio_items,
                   pinecone_available, str_hash, agent, added, threads, lexVars>>

\* A call of add_portfolio_item can start: the agent is there, no call is in
\* progress, and the file and the stores are below their bound.
AddEnabled ==
    /\ agent = "ready" /\ last = Idle
    /\ Len(csv.rows) < MaxRows
    /\ Len(collection) < MaxRows
    /\ Len(portfolio_items) < MaxRows

AddCall(techstack, link, outcome) ==
    [op |-> "add", techstack |-> techstack, link |-> link, outcome |-> outcome]

\* add_portfolio_item of the vector agent.
AddVector(techstack, link) ==
    /\ variant = "vector" /\ AddEnabled
    /\ IF add_error(techstack, link) # "none"
       THEN /\ last' = AddCall(techstack, link, add_error(techstack, link))
            /\ UNCHANGED <<csv, collection, added>>
       ELSE \E count \in collection_counts(collection) :
            LET portfolio_id == PortfolioId(count)
                doc == [id |-> portfolio_id, techstack |-> techstack, link |-> link]
            IN  \E how \in store_add_outcomes(collection, portfolio_id) :
                    /\ collection' =
                           CASE how = "added" -> Append(collection, doc)
                             [] how = "replaced" -> Upsert1(collection, doc)
                             [] OTHER -> collection
                    /\ IF how = "raised"
                       THEN /\ last' = AddCall(techstack, link, "raised")
                            /\ UNCHANGED <<csv, added>>
                       ELSE /\ last' = AddCall(techstack, link, "returned")
                            /\ csv' = IF csv.exists
                                      THEN csv_append(csv, techstack, link) ELSE csv
                            /\ added' = <<[techstack |-> techstack, link |-> link]>>
    /\ UNCHANGED <<variant, top_k, portfolio_items, pinecone_available,
                   str_hash, agent, threads, lexVars>>

\* add_portfolio_item of the lite agent.
AddLite(techstack, link) ==
    /\ variant = "lite" /\ AddEnabled
    /\ IF add_error(techstack, link) # "none"
       THEN /\ last' = AddCall(techstack, link, add_error(techstack, link))
            /\ UNCHANGED <<csv, portfolio_items, added>>
       ELSE /\ portfolio_items' =
                   Append(portfolio_items,
                          lite_item([id |-> PortfolioId(Len(portfolio_items)),
                                     techstack |-> techstack, link |-> link]))
            /\ csv' = IF csv.exists THEN csv_append(csv, techstack, link) ELSE csv
            /\ last' = AddCall(techstack, link, "returned")
            /\ added' = <<[techstack |-> techstack, link |-> link]>>
    /\ UNCHANGED <<variant, top_k, collection, pinecone_available, str_hash,
                   agent, threads, lexVars>>

\* add_portfolio_item of the Pinecone agent.
AddPinecone(techstack, link) ==
    /\ variant = "pinecone" /\ AddEnabled
    /\ IF add_error(techstack, link) # "none"
       THEN /\ last' = AddCall(techstack, link, add_error(techstack, link))
            /\ UNCHANGED <<csv, collection, added>>
       ELSE /\ collection' =
                   IF pinecone_available
                   THEN Upsert1(collection,
                                [id |-> PortfolioNewId(str_hash[techstack]),
                                 techstack |-> techstack, link |-> link])
                   ELSE collection
            /\ csv' = IF csv.exists THEN csv_append(csv, techstack, link) ELSE csv
            /\ last' = AddCall(techstack, link, "returned")
            /\ added' = <<[techstack |-> techstack, link |-> link]>>
    /\ UNCHANGED <<variant, top_k, portfolio_items, pinecone_available,
                   str_hash, agent, threads, lexVars>>

RetrieveCall(request, backend, outcome, candidates, result) ==
    [op |-> "retrieve", request |-> request, backend |-> backend,
     outcome |-> outcome, candidates |-> candidates, result |-> result]

\* retrieve of the vector agent.  The store may raise or answer.
RetrieveVector(request) ==
    /\ variant = "vector" /\ agent = "ready" /\ last = Idle
    /\ LET x == vector_extract(request.persona, request.scraped_job_data,
                               request.product, request.industry)
       IN  IF Strip(Join(x.query_parts)) = <<>>
           THEN last' = RetrieveCall(request, "not_called", "returned", <<>>, <<>>)
           ELSE \/ last' = RetrieveCall(request, "raised", "returned", <<>>, <<>>)
                \/ \E c \in StoreAnswers(collection, vector_n_results(top_k)) :
                       last' = RetrieveCall(request, "answered", "returned", c,
                                            vector_rank(c, x.filter_keywords, top_k))
    /\ UNCHANGED <<variant, top_k, csv, collection, portfolio_items,
                   pinecone_available, str_hash, agent, added, threads, lexVars>>

\* retrieve of the lite agent.
RetrieveLite(request) ==
    /\ variant = "lite" /\ agent = "ready" /\ last = Idle
    /\ last' = RetrieveCall(request,
                            IF portfolio_items = <<>> THEN "not_called" ELSE "scored",
                            "returned", <<>>,
                            lite_retrieve(portfolio_items, top_k, request.persona,
                                          request.scraped_job_data,
                                          request.product, request.industry))
    /\ UNCHANGED <<variant, top_k, csv, collection, portfolio_items,
                   pinecone_available, str_hash, agent, added, threads, lexVars>>

\* retrieve of the Pinecone agent.  The index may raise or answer.
RetrievePinecone(request) ==
    /\ variant = "pinecone" /\ agent = "ready" /\ last = Idle
    /\ IF \/ ~pinecone_available
          \/ Strip(pinecone_query_text(request.persona, request.scraped_job_data,
                                       request.product, request.industry)) = <<>>
       THEN last' = RetrieveCall(request, "not_called", "returned", <<>>, <<>>)
       ELSE \/ last' = RetrieveCall(request, "raised", "raised", <<>>, <<>>)
            \/ \E c \in StoreAnswers(collection, top_k) :
                   last' = RetrieveCall(request, "answered", "returned", c,
                                        pinecone_format(c))
    /\ UNCHANGED <<variant, top_k, csv, collection, portfolio_items,
                   pinecone_available, str_hash, agent, added, threads, lexVars>>

\* The agent without retrieve: construction, add_portfolio_item, restart.
StoreNext ==
    \/ ConstructVector
    \/ ConstructLite
    \/ ConstructPinecone
    \/ Restart
    \/ DeleteNamespace
    \/ Return
    \/ \E techstack \in AddTechstacks, link \in AddLinks : AddVector(techstack, link)
    \/ \E techstack \in AddTechstacks, link \in AddLinks : AddLite(techstack, link)
    \/ \E techstack \in AddTechstacks, link \in AddLinks : AddPinecone(techstack, link)

SpecStore == Init /\ [][StoreNext]_vars

Next ==
    \/ StoreNext
    \/ \E request \in Requests : RetrieveVector(request)
    \/ \E request \in Requests : RetrieveLite(request)
    \/ \E request \in Requests : RetrievePinecone(request)

Spec == Init /\ [][Next]_vars

\* ------------------------------------------------------------------------
\* Two concurrent calls of add_portfolio_item on one agent and one file
\* ------------------------------------------------------------------------

Threads == {1, 2}

NoId == [prefix |-> "none", n |-> 0]

\* A thread about to call add_portfolio_item(techstack, link).
ThreadAt(techstack, link) ==
    [pc |-> "start", techstack |-> techstack, link |-> link,
     portfolio_id |-> NoId, df |-> <<>>, outcome |-> "none"]

\* The agent after its construction from the file, with two calls about to
\* start; the file, when there is one, has the two columns.
ConcInit ==
    /\ variant \in {"vector", "lite", "pinecone"}
    /\ top_k = 3
    /\ csv \in CsvFiles
    /\ csv.exists => csv.has_columns
    /\ pinecone_available \in (IF variant = "pinecone" THEN BOOLEAN ELSE {FALSE})
    /\ str_hash \in (IF pinecone_available THEN HashFunctions ELSE {<<>>})
    /\ LET docs == IF csv.exists /\ csv.has_columns THEN load_rows(csv.rows) ELSE <<>>
       IN  /\ variant = "vector" => docs # <<>>
           /\ collection = IF variant = "vector" \/ pinecone_available
                           THEN docs ELSE <<>>
           /\ portfolio_items = IF variant = "lite"
                                THEN [i \in 1..Len(docs) |-> lite_item(docs[i])]
                                ELSE <<>>
    /\ agent = "ready"
    /\ added = <<>>
    /\ last = Idle
    /\ threads \in [Threads -> {ThreadAt(techstack, LinkX) :
                                   techstack \in AddTechstacks}]
    /\ LexIdle

\* The checks at the head of add_portfolio_item.
ThreadValidate(t) ==
    /\ threads[t].pc = "start"
    /\ threads' =
           IF add_error(threads[t].techstack, threads[t].link) # "none"
           THEN [threads EXCEPT ![t].pc = "done",
                                ![t].outcome = add_error(threads[t].techstack,
                                                         threads[t].link)]
           ELSE [threads EXCEPT ![t].pc = "id"]
    /\ UNCHANGED <<variant, top_k, csv, collection, portfolio_items,
                   pinecone_available, str_hash, agent, added, last, lexVars>>

\* The id of the new item is computed from the count of the store, or from
\* the hash of the techstack.
ThreadId(t) ==
    /\ threads[t].pc = "id"
    /\ \E count \in collection_counts(collection) :
           threads' =
               [threads EXCEPT
                   ![t].pc = "store",
                   ![t].portfolio_id =
                       CASE variant = "vector" -> PortfolioId(count)
                         [] variant = "lite" -> PortfolioId(Len(portfolio_items))
                         [] OTHER -> IF pinecone_available
                                     THEN PortfolioNewId(str_hash[threads[t].techstack])
                                     ELSE NoId]
    /\ UNCHANGED <<variant, top_k, csv, collection, portfolio_items,
                   pinecone_available, str_hash, agent, added, last, lexVars>>

\* The item goes to the store under the id computed before.
ThreadStore(t) ==
    /\ threads[t].pc = "store"
    /\ LET doc == [id |-> threads[t].portfolio_id,
                   techstack |-> threads[t].techstack, link |-> threads[t].link]
       IN  CASE variant = "vector" ->
                  /\ \E how \in store_add_outcomes(collection, doc.id) :
                        /\ collection' =
                               CASE how = "added" -> Append(collection, doc)
                                 [] how = "replaced" -> Upsert1(collection, doc)
                                 [] OTHER -> collection
                        /\ threads' =
                               IF how = "raised"
                               THEN [threads EXCEPT ![t].pc = "done",
                                                    ![t].outcome = "raised"]
                               ELSE [threads EXCEPT ![t].pc = "read"]
                  /\ UNCHANGED portfolio_items
             [] variant = "lite" ->
                  /\ portfolio_items' = Append(portfolio_items, lite_item(doc))
                  /\ threads' = [threads EXCEPT ![t].pc = "read"]
                  /\ UNCHANGED collection
             [] OTHER ->
                  /\ collection' = IF pinecone_available
                                   THEN Upsert1(collection, doc) ELSE collection
                  /\ threads' = [threads EXCEPT ![t].pc = "read"]
                  /\ UNCHANGED portfolio_items
    /\ UNCHANGED <<variant, top_k, csv, pinecone_available, str_hash, agent,
                   added, last, lexVars>>

\* The file while to_csv has opened it and written nothing: zero bytes.
TruncatedFile == [exists |-> TRUE, has_columns |-> FALSE, rows |-> <<>>]

\* A file read_csv cannot parse (pandas raises ParserError).
MalformedFile ==
    [exists |-> TRUE, has_columns |-> FALSE, rows |-> <<>>, error |-> "ParserError"]

HeaderNames == <<<<"T","e","c","h","s","t","a","c","k">>, <<"L","i","n","k","s">>>>

\* The characters for which the csv writer puts a cell in quotes: the
\* delimiter, the quote character and the line terminator it writes.
QuotedChars == {",", "\"", "\n"}

\* A cell as to_csv writes it: in quotes, its quotes doubled, when it holds a
\* comma, a quote or a line break.
RECURSIVE DoubleQuotes(_)
DoubleQuotes(value) ==
    IF value = <<>> THEN <<>>
    ELSE (IF Head(value) = "\"" THEN <<"\"", "\"">> ELSE <<Head(value)>>)
         \o DoubleQuotes(Tail(value))

csv_field(value) ==
    IF \E i \in 1..Len(value) : value[i] \in QuotedChars
    THEN <<"\"">> \o DoubleQuotes(value) \o <<"\"">>
    ELSE value

\* The text df.to_csv(path, index=False) writes for the rows: the header
\* line and a line for each row.
RECURSIVE csv_lines(_)
csv_lines(rows) ==
    IF rows = <<>> THEN <<>>
    ELSE csv_field(Head(rows).techstack) \o <<",">> \o csv_field(Head(rows).link)
         \o <<"\n">> \o csv_lines(Tail(rows))

csv_text(rows) ==
    HeaderNames[1] \o <<",">> \o HeaderNames[2] \o <<"\n">> \o csv_lines(rows)

\* What the file holds: nothing after the truncation, else the text of its
\* rows as to_csv wrote them.
file_text(file) == IF file.has_columns THEN csv_text(file.rows) ELSE <<>>

\* A handle opened for writing writes from offset 0 over what the file holds
\* at that moment: what lies beyond the text written stays.
write_at_start(content, text) ==
    text \o SubSeq(content, Len(text) + 1, Len(content))

\* The tokenizer of read_csv (comma, double quote, doubled quotes inside
\* quotes, blank lines skipped) from character i on: the records of the
\* text, each the list of its fields, and whether the text ends inside a
\* quoted field.
EndField(st) == [st EXCEPT !.record = Append(st.record, st.field), !.field = <<>>]

EndLine(st, next) ==
    [st EXCEPT !.records = Append(st.records, st.record), !.record = <<>>,
               !.state = next]

PushChar(st, c, next) == [st EXCEPT !.field = Append(st.field, c), !.state = next]

TokenStart ==
    [state |-> "START_RECORD", field |-> <<>>, record |-> <<>>, records |-> <<>>,
     mark |-> 1]

\* The place of the tokenizer in the text: the next character and the state.
At(i, st) == [i |-> i, st |-> st]

\* The tokenizer at the end of the text.
token_end(st) ==
    CASE st.state \in {"START_RECORD", "WHITESPACE_LINE", "EAT_CRNL_NOP"} ->
         [error |-> FALSE, records |-> st.records]
    [] st.state = "IN_QUOTED_FIELD" ->
         [error |-> TRUE, records |-> st.records]
    [] st.state = "EAT_CRNL" ->
         [error |-> FALSE, records |-> EndLine(st, "START_RECORD").records]
    [] OTHER ->
         [error |-> FALSE,
          records |-> EndLine(EndField(st), "START_RECORD").records]

\* One step of the tokenizer on character i of the text in the state st.
token_step(text, pos, state) ==
    Value({LET c == text[i]
              to(next) == [st EXCEPT !.state = next]
            IN  CASE st.state = "START_RECORD" ->
                     IF c = "\n" THEN At(i + 1, st)
                     ELSE IF c = "\r"
                     THEN At(i + 1, to("EAT_CRNL_NOP"))
                     ELSE IF c \in {" ", "\t"}
                     THEN At(i + 1, [st EXCEPT !.state = "WHITESPACE_LINE",
                                                    !.mark = i])
                     ELSE At(i, to("START_FIELD"))
                [] st.state = "WHITESPACE_LINE" ->
                     IF c = "\n" THEN At(i + 1, to("START_RECORD"))
                     ELSE IF c = "\r"
                     THEN At(i + 1, to("EAT_CRNL_NOP"))
                     ELSE IF c \in {" ", "\t"} THEN At(i + 1, st)
                     ELSE At(st.mark, to("START_FIELD"))
                [] st.state \in {"START_FIELD", "IN_FIELD"} ->
                     IF c = "\n"
                     THEN At(i + 1, EndLine(EndField(st), "START_RECORD"))
                     ELSE IF c = "\r"
                     THEN At(i + 1, [EndField(st) EXCEPT !.state = "EAT_CRNL"])
                     ELSE IF c = ","
                     THEN At(i + 1, [EndField(st) EXCEPT !.state = "START_FIELD"])
                     ELSE IF c = "\"" /\ st.state = "START_FIELD"
                     THEN At(i + 1, to("IN_QUOTED_FIELD"))
                     ELSE At(i + 1, PushChar(st, c, "IN_FIELD"))
                [] st.state = "IN_QUOTED_FIELD" ->
                     IF c = "\""
                     THEN At(i + 1, to("QUOTE_IN_QUOTED_FIELD"))
                     ELSE At(i + 1, PushChar(st, c, "IN_QUOTED_FIELD"))
                [] st.state = "QUOTE_IN_QUOTED_FIELD" ->
                     IF c = "\""
                     THEN At(i + 1, PushChar(st, c, "IN_QUOTED_FIELD"))
                     ELSE IF c = "\n"
                     THEN At(i + 1, EndLine(EndField(st), "START_RECORD"))
                     ELSE IF c = "\r"
                     THEN At(i + 1, [EndField(st) EXCEPT !.state = "EAT_CRNL"])
                     ELSE IF c = ","
                     THEN At(i + 1, [EndField(st) EXCEPT !.state = "START_FIELD"])
                     ELSE At(i + 1, PushChar(st, c, "IN_FIELD"))
                [] st.state = "EAT_CRNL" ->
                     IF c = "\n"
                     THEN At(i + 1, EndLine(st, "START_RECORD"))
                     ELSE IF c = ","
                     THEN At(i + 1, EndLine(st, "START_FIELD"))
                     ELSE At(i, EndLine(st, "START_RECORD"))
                [] OTHER ->
                     At(IF c \in {"\n", ","} THEN i + 1 ELSE i, to("START_RECORD"))
              : i \in {pos}, st \in {state}})

\* Up to n steps of the tokenizer from a place in the text.
RECURSIVE token_run(_, _, _)
token_run(text, from, n) ==
    Value({IF n = 0 \/ at.i > Len(text) THEN at
           ELSE IF n = 1 THEN token_step(text, at.i, at.st)
           ELSE token_run(text, token_run(text, at, n \div 2), n - (n \div 2))
              : at \in {from}})

\* The tokenizer from character i on in the state st, to the end of the
\* text: a character takes at most five steps.
tokenize_bytes(bytes, i, st) ==
    Value({token_end(token_run(text, At(i, st), 6 * Len(text) + 6).st)
              : text \in {bytes}})

\* The file of the text as pd.read_csv takes it: the first record names the
\* columns; the first row sets the width of the table (fields beyond the
\* named columns lead the row as its index) and a later row with more fields
\* is an error; a row with fewer fields has empty cells at its end.
column_of(names, width, name) ==
    SeqMin({p \in 1..Len(names) : names[p] = name}) + width - Len(names)

cell_of(record, column) == IF column <= Len(record) THEN record[column] ELSE <<>>

table_of(records, names, width) ==
    IF \E j \in 3..Len(records) : Len(records[j]) > width
    THEN MalformedFile
    ELSE IF \E k \in 1..2 : HeaderNames[k] \notin Range(names)
    THEN [exists |-> TRUE, has_columns |-> FALSE,
          rows |-> [j \in 1..(Len(records) - 1) |-> BlankRow]]
    ELSE Value({[exists |-> TRUE, has_columns |-> TRUE,
                 rows |-> [j \in 1..(Len(records) - 1) |->
                              [techstack |-> cell_of(records[j + 1], first),
                               link |-> cell_of(records[j + 1], second)]]]
                   : first \in {column_of(names, width, HeaderNames[1])},
                     second \in {column_of(names, width, HeaderNames[2])}})

file_of_text(text) ==
    Value({IF tokens.error THEN MalformedFile
           ELSE IF tokens.records = <<>> THEN TruncatedFile
           ELSE Value({Value({table_of(records, names, width)
                                 : width \in {IF Len(records) >= 2
                                                 /\ Len(records[2]) > Len(names)
                                              THEN Len(records[2])
                                              ELSE Len(names)}})
                          : records \in {tokens.records},
                            names \in {tokens.records[1]}})
              : tokens \in {tokenize_bytes(text, 1, TokenStart)}})

\* portfolio_path.exists() and read_csv; read_csv raises EmptyDataError on a
\* file of zero bytes and ParserError on one it cannot parse, after the item
\* went to the store.
ThreadRead(t) ==
    /\ threads[t].pc = "read"
    /\ threads' =
           IF ~csv.exists
           THEN [threads EXCEPT ![t].pc = "done", ![t].outcome = "returned"]
           ELSE IF csv = TruncatedFile
           THEN [threads EXCEPT ![t].pc = "done", ![t].outcome = "EmptyDataError"]
           ELSE IF csv = MalformedFile
           THEN [threads EXCEPT ![t].pc = "done", ![t].outcome = "ParserError"]
           ELSE [threads EXCEPT ![t].pc = "write", ![t].df = csv.rows]
    /\ UNCHANGED <<variant, top_k, csv, collection, portfolio_items,
                   pinecone_available, str_hash, agent, added, last, lexVars>>

\* concat, and to_csv opens the file for writing: the file is truncated, and
\* the handle starts at offset 0.
ThreadOpen(t) ==
    /\ threads[t].pc = "write"
    /\ csv' = TruncatedFile
    /\ threads' = [threads EXCEPT ![t].pc = "close"]
    /\ UNCHANGED <<variant, top_k, collection, portfolio_items,
                   pinecone_available, str_hash, agent, added, last, lexVars>>

\* to_csv closes the file: the text of the frame read before plus the new
\* row, which to_csv held in the buffer of its handle (the files here are
\* far shorter than the buffer), goes to the file in one write from offset 0.
ThreadWrite(t) ==
    /\ threads[t].pc = "close"
    /\ LET out == csv_append([csv EXCEPT !.rows = threads[t].df],
                             threads[t].techstack, threads[t].link)
       IN  csv' = file_of_text(write_at_start(file_text(csv), csv_text(out.rows)))
    /\ threads' = [threads EXCEPT ![t].pc = "done", ![t].outcome = "returned"]
    /\ UNCHANGED <<variant, top_k, collection, portfolio_items,
                   pinecone_available, str_hash, agent, added, last, lexVars>>

ConcNext ==
    \/ \E t \in Threads : ThreadValidate(t)
    \/ \E t \in Threads : ThreadId(t)
    \/ \E t \in Threads : ThreadStore(t)
    \/ \E t \in Threads : ThreadRead(t)
    \/ \E t \in Threads : ThreadOpen(t)
    \/ \E t \in Threads : ThreadWrite(t)

SpecConc == ConcInit /\ [][ConcNext]_vars

\* ------------------------------------------------------------------------
\* The template agents' retrieve as functions of their inputs
\* ------------------------------------------------------------------------

\* What a nearest-neighbour query for n results can answer on documents with
\* the ids: for every distance of every document, the n nearest in ascending
\* distance.  Documents indexed under one id are one document.
IdAnswers(ids, n) ==
    LET docs == Range(ids)
        m == IF n < Cardinality(docs) THEN n ELSE Cardinality(docs)
    IN  UNION {{[i \in 1..(IF m < 0 THEN 0 ELSE m) |->
                    [id |-> p[i], distance |-> d[p[i]]]] :
                p \in {q \in Perms(docs) :
                         \A i \in 1..(Len(q) - 1) : d[q[i]] <= d[q[i + 1]]}} :
               d \in [docs -> Distances]}

\* No backend was asked.
NoAnswer == [raised |-> FALSE, matches |-> <<>>]

\* The backend raises, or answers.
BackendAnswers(ids, n) ==
    {[raised |-> TRUE, matches |-> <<>>]}
    \cup {[raised |-> FALSE, matches |-> a] : a \in IdAnswers(ids, n)}

\* n_results=self.top_k, top_k=self.top_k: the number of matches the vector
\* and Pinecone template agents ask the backend for.
template_n_results(k) == k

\* The templates record of the inputs, the product and industry arguments
\* being strings.
TemplateInit == LexInit

ApplyTemplateLiteCall ==
    /\ lex_out.fn = "none"
    /\ lex_out' = [fn |-> "template_lite", answer |-> NoAnswer, requested |-> 0,
                   call |-> template_lite_call(LexTemplates, lex_in.top_k,
                                               lex_in.request.persona,
                                               lex_in.request.product,
                                               lex_in.request.industry)]
    /\ UNCHANGED <<lex_in, agentVars>>

\* retrieve() of the vector agent: building the query text raises for a
\* persona of None, before collection.query is called.
ApplyTemplateVectorCall ==
    /\ lex_out.fn = "none"
    /\ LET asked == lex_in.request.persona # None
       IN  \E answer \in IF asked
                         THEN BackendAnswers(template_ids(LexTemplates),
                                             template_n_results(lex_in.top_k))
                         ELSE {NoAnswer} :
               lex_out' = [fn |-> "template_vector", answer |-> answer,
                           requested |-> IF asked
                                         THEN template_n_results(lex_in.top_k)
                                         ELSE 0,
                           call |-> template_vector_call(LexTemplates, answer,
                                                         lex_in.request.persona)]
    /\ UNCHANGED <<lex_in, agentVars>>

\* retrieve() of the Pinecone agent: building the query text raises for a
\* persona of None, before is_available() and pinecone.query are called.
ApplyTemplatePineconeCall ==
    /\ lex_out.fn = "none"
    /\ \E available \in BOOLEAN :
         \E answer \in IF available /\ lex_in.request.persona # None
                       THEN BackendAnswers(template_ids(LexTemplates),
                                           template_n_results(lex_in.top_k))
                       ELSE {NoAnswer} :
           lex_out' = [fn |-> IF available THEN "template_pinecone"
                              ELSE "template_pinecone_fallback",
                       answer |-> answer,
                       requested |-> IF available /\ lex_in.request.persona # None
                                     THEN template_n_results(lex_in.top_k) ELSE 0,
                       call |-> template_pinecone_call(LexTemplates, lex_in.top_k,
                                                       available, answer,
                                                       lex_in.request.persona)]
    /\ UNCHANGED <<lex_in, agentVars>>

TemplateNext ==
    \/ ApplyTemplateLiteCall
    \/ ApplyTemplateVectorCall
    \/ ApplyTemplatePineconeCall

SpecTemplate == TemplateInit /\ [][TemplateNext]_vars

\* ------------------------------------------------------------------------
\* Properties of the portfolio agent
\* ------------------------------------------------------------------------

\* C1: when the backend query of retrieve() raises, the call returns an empty
\* list and the exception does not reach the caller, for every variant.
C1_BackendFailureGivesEmptyResult ==
    (last.op = "retrieve" /\ last.backend = "raised")
        => (last.outcome = "returned" /\ last.result = <<>>)

EmptyRequest ==
    [persona |-> None, scraped_job_data |-> None, product |-> <<>>, industry |-> <<>>]

\* The query text the agent in use derives from a request.
QueryTextOf(request) ==
    CASE variant = "vector" ->
             Join(vector_extract(request.persona, request.scraped_job_data,
                                 request.product, request.industry).query_parts)
      [] variant = "lite" ->
             lite_query_text(request.persona, request.scraped_job_data,
                             request.product, request.industry)
      [] OTHER ->
             pinecone_query_text(request.persona, request.scraped_job_data,
                                 request.product, request.industry)

\* C2: retrieve() without persona, job data, product and industry, and more
\* generally with an empty derived query text, returns an empty list and
\* neither queries the backend nor scores the corpus.
C2_EmptyQueryReturnsEmpty ==
    (/\ last.op = "retrieve"
     /\ \/ last.request = EmptyRequest
        \/ Strip(QueryTextOf(last.request)) = <<>>)
        => (last.result = <<>> /\ last.backend = "not_called")

\* C3: every item retrieve() returns has a similarity_score within [0, 1],
\* whatever distance or score the backend reported.
C3_SimilarityScoreInUnitInterval ==
    last.op = "retrieve"
        => \A i \in 1..Len(last.result) :
               /\ RatLE(<<0, 1>>, last.result[i].similarity_score)
               /\ RatLE(last.result[i].similarity_score, <<1, 1>>)

\* The text is empty or whitespace only.
IsBlankText(text) == \A i \in 1..Len(text) : text[i] \in Whitespace

\* The text begins with http:// or https://.
BeginsWithHttp(text) ==
    \/ Len(text) >= 7 /\ SubSeq(text, 1, 7) = <<"h","t","t","p",":","/","/">>
    \/ Len(text) >= 8 /\ SubSeq(text, 1, 8) = <<"h","t","t","p","s",":","/","/">>

\* C5: add_portfolio_item with an empty or whitespace-only techstack, or with
\* a link that begins with neither http:// nor https://, fails with a
\* validation error and leaves the store and the file as they were.
C5_InvalidAddRejected ==
    [][(/\ last = Idle /\ last'.op = "add"
        /\ IsBlankText(last'.techstack) \/ ~BeginsWithHttp(last'.link))
       => (/\ last'.outcome = "ValueError"
           /\ UNCHANGED <<csv, collection, portfolio_items>>)]_vars

C5_Witness ==
    /\ last.op = "add" /\ last.outcome = "ValueError"
    /\ last.techstack = GoKubernetes /\ last.link = LinkFtp
    /\ csv.exists /\ csv.rows # <<>>
    /\ collection # <<>> \/ portfolio_items # <<>>

\* The techstack and link of the items of the store the agent retrieves from.
LiveStore ==
    LET store == IF variant = "lite" THEN portfolio_items ELSE collection
    IN  [i \in 1..Len(store) |->
            [techstack |-> store[i].techstack, link |-> store[i].link]]

\* C6: an add_portfolio_item call that returns has appended exactly one item
\* to the live store and exactly one row to the file, also when the file was
\* absent or Pinecone unavailable, and has changed no other item or row.
C6_AddAppendsOneItemAndOneRow ==
    [][(last = Idle /\ last'.op = "add" /\ last'.outcome = "returned")
       => LET row == [techstack |-> last'.techstack, link |-> last'.link]
          IN  /\ LiveStore' = Append(LiveStore, row)
              /\ csv'.exists
              /\ csv'.rows = Append(csv.rows, row)]_vars

Kubernetes == <<"k","u","b","e","r","n","e","t","e","s">>

\* The filter keywords the agent in use derives from a request.
FilterKeywordsOf(request) ==
    IF variant = "lite"
    THEN lite_extract_filter_keywords(request.scraped_job_data, request.persona,
                                      request.product)
    ELSE vector_extract(request.persona, request.scraped_job_data,
                        request.product, request.industry).filter_keywords

IsNewItem(item) == item.techstack = GoKubernetes /\ item.link = LinkX

\* The scores of the last retrieve: of every item the lite agent ranks, and of
\* every candidate the vector store answered with.
ScoredOfLast ==
    IF variant = "lite"
    THEN LET ranking == lite_retrieve(portfolio_items, Len(portfolio_items),
                                      last.request.persona,
                                      last.request.scraped_job_data,
                                      last.request.product, last.request.industry)
         IN  [i \in 1..Len(ranking) |->
                 [techstack |-> ranking[i].tech_stack, link |-> ranking[i].link,
                  score |-> ranking[i].similarity_score]]
    ELSE [i \in 1..Len(last.candidates) |->
             [techstack |-> last.candidates[i].techstack,
              link |-> last.candidates[i].link,
              score |-> vector_similarity(last.candidates[i].distance)]]

\* No other item scores higher than the new item; when the new item has no
\* score, no other item scores above zero.
NoHigherScoringCompetitor ==
    LET scored == ScoredOfLast
        news == {i \in 1..Len(scored) : IsNewItem(scored[i])}
    IN  \A i \in (1..Len(scored)) \ news :
            IF news = {} THEN RatLE(scored[i].score, <<0, 1>>)
            ELSE \E j \in news : RatLE(scored[i].score, scored[j].score)

\* C7: after add_portfolio_item("Go Kubernetes", "https://x.io/p") returned, a
\* retrieve() whose filter keywords include "kubernetes" returns the new item
\* when top_k >= 1 and no competing item scores higher.
C7_AddedItemIsRetrieved ==
    (/\ last.op = "retrieve" /\ last.backend \in {"answered", "scored"}
     /\ variant \in {"vector", "lite"}
     /\ added = <<[techstack |-> GoKubernetes, link |-> LinkX]>>
     /\ Kubernetes \in FilterKeywordsOf(last.request)
     /\ top_k >= 1
     /\ NoHigherScoringCompetitor)
        => \E i \in 1..Len(last.result) :
               /\ last.result[i].tech_stack = GoKubernetes
               /\ last.result[i].link = LinkX

DistinctIds(store) ==
    \A i, j \in 1..Len(store) : i # j => store[i].id # store[j].id

\* C8: after any loading, with skipped rows or not, and any adds, the ids of
\* the documents of the store are pairwise distinct.
C8_DocumentIdsDistinct ==
    DistinctIds(collection) /\ DistinctIds(portfolio_items)

\* C9: two concurrent add_portfolio_item calls on one file behave as if the
\* read-modify-write of the file were a critical section: in every
\* interleaving, once both have returned, the file holds both new rows and
\* the two new items have distinct ids.
C9_ConcurrentAddsSerialised ==
    (\A t \in Threads : threads[t].pc = "done" /\ threads[t].outcome = "returned")
           => /\ threads[1].portfolio_id # NoId
                     => threads[1].portfolio_id # threads[2].portfolio_id
              /\ csv.exists =>
                     \A t \in Threads :
                         Count(csv.rows, [techstack |-> threads[t].techstack,
                                          link |-> threads[t].link])
                             >= Cardinality({u \in Threads :
                                    threads[u].techstack = threads[t].techstack})

\* C10: constructing the agent when the file is absent, lacks the Techstack
\* or Links column or has no rows fails with an error; no agent is ready
\* without the corpus of the file.
C10_ConstructionFailsWithoutCorpus ==
    (last.op = "construct"
     /\ (~csv.exists \/ ~csv.has_columns \/ csv.rows = <<>>))
        => (last.outcome # "ready" /\ agent = "failed")

\* ------------------------------------------------------------------------
\* Properties of the template agents
\* ------------------------------------------------------------------------

\* Every template of the corpus validates.
CorpusWellFormed == \A i \in 1..Len(LexTemplates) : EmailTemplateValid(LexTemplates[i])

\* C11: retrieve() returns normally, never with an exception, when the
\* persona is absent, the job data is absent, or both; here for the template
\* agents, with a backend that answers and a corpus of well-formed templates.
C11_RetrieveReturnsWithoutPersonaOrJob ==
    (/\ lex_out.fn # "none"
     /\ (lex_in.request.persona = None \/ lex_in.request.scraped_job_data = None)
     /\ ~lex_out.answer.raised
     /\ CorpusWellFormed)
        => lex_out.call.outcome = "returned"

\* The request of the end-to-end scenario: the persona, "Backend Engineer",
\* "Technology".
ScenarioRequest ==
    [persona |-> Persona1, scraped_job_data |-> None,
     product |-> BackendEngineer, industry |-> Technology]

\* C12: with a corpus of exactly the template t1 (no cta), the scenario's
\* persona, product "Backend Engineer" and industry "Technology", the
\* template agent's retrieve() returns exactly one RetrievedTemplate, wrapping
\* t1, with a similarity_score in [0, 1].
C12_SingleTemplateIsRetrieved ==
    (/\ lex_out.fn = "template_lite"
     /\ lex_in.corpus = <<1>>
     /\ lex_in.request = ScenarioRequest
     /\ lex_in.top_k >= 1)
        => (/\ lex_out.call.outcome = "returned"
            /\ Len(lex_out.call.result) = 1
            /\ lex_out.call.result[1].template.id = <<"t", "1">>
            /\ RatLE(<<0, 1>>, lex_out.call.result[1].similarity_score)
            /\ RatLE(lex_out.call.result[1].similarity_score, <<1, 1>>))

\* The candidates a call of the vector or Pinecone template agent builds its
\* result from: the matches of the backend's answer, or the first top_k
\* templates of the fallback.
CandidateIds ==
    IF lex_out.fn = "template_pinecone_fallback"
    THEN LET first == PySliceTo(LexTemplates, lex_in.top_k)
         IN  [i \in 1..Len(first) |-> first[i].id]
    ELSE [i \in 1..Len(lex_out.answer.matches) |-> lex_out.answer.matches[i].id]

\* Whether the template stored under an id validates.
WellFormedId(id) ==
    \E i \in 1..Len(LexTemplates) :
        LexTemplates[i].id = id /\ EmailTemplateValid(LexTemplates[i])

\* C15: when one stored document is malformed (a template key is missing),
\* retrieve() skips only that candidate and returns the remaining well-formed
\* candidates; the call never fails because of it.
C15_MalformedDocumentIsSkipped ==
    (/\ lex_out.fn \in {"template_vector", "template_pinecone",
                         "template_pinecone_fallback"}
     /\ lex_in.request.persona # None
     /\ ~lex_out.answer.raised
     /\ Cardinality({i \in 1..Len(LexTemplates) :
                        ~EmailTemplateValid(LexTemplates[i])}) = 1
     /\ Cardinality(Range(lex_in.corpus)) = Len(lex_in.corpus))
        => (/\ lex_out.call.outcome = "returned"
            /\ [i \in 1..Len(lex_out.call.result) |->
                   lex_out.call.result[i].template.id]
               = SelectSeq(CandidateIds, WellFormedId))

\* ------------------------------------------------------------------------
\* The keyword extraction of the portfolio agents on its own: the arguments
\* are drawn from postings, personas, products and industries, and each
\* variant's extraction is applied to them.
\* ------------------------------------------------------------------------

SeniorDataScientist == <<"S","e","n","i","o","r"," ","D","a","t","a"," ","S","c","i","e","n","t","i","s","t">>

\* A role that holds 'engineer' and no key of the lite agent's table.
QAEngineer == <<"Q","A"," ","E","n","g","i","n","e","e","r">>

\* The roles of a posting: none, one whose first table key is 'data
\* scientist', one that holds two keys ('engineer' comes before 'backend' in
\* the vector agent's table), one that holds no key, and QAEngineer.
ExtractRoles ==
    {<<>>, SeniorDataScientist, BackendEngineer,
     <<"O","f","f","i","c","e"," ","C","l","e","r","k">>, QAEngineer}

\* The skills lists of a posting: none, the list of the exclusion example, a
\* word that is neither excluded nor a recognised skill, a recognised skill.
HealthPython401k == <<<<"H","e","a","l","t","h"," ","I","n","s","u","r","a","n","c","e">>, Python, <<"4","0","1","k">>>>

ExtractSkills ==
    {<<>>, HealthPython401k, <<<<"C","o","m","m","u","n","i","c","a","t","i","o","n">>>>,
     <<<<"K","u","b","e","r","n","e","t","e","s">>>>}

ExtractKeywords == {<<>>, <<<<"D","o","c","k","e","r">>>>, <<<<"M","e","n","t","o","r","i","n","g">>>>}

ExtractJobs ==
    [role : ExtractRoles, skills : ExtractSkills, keywords : ExtractKeywords,
     responsibilities : {<<>>}]

\* The products: none, one of plain words, one that holds excluded words.
ExtractProducts == {<<>>, BackendEngineer, <<"R","e","m","o","t","e"," ","T","e","a","m"," ","T","o","o","l","s">>}

ExtractInputs ==
    [scraped_job_data : ExtractJobs \cup {None},
     persona : {None, Persona1},
     product : ExtractProducts,
     industry : {<<>>, Technology}]

ExtractInit ==
    /\ lex_in \in ExtractInputs
    /\ lex_out = [fn |-> "none"]
    /\ AgentIdle

\* The head of the vector agent's retrieve(): filter_keywords, and the
\* query_text " ".join(query_parts) it searches with.
ApplyVectorExtract ==
    /\ lex_out.fn = "none"
    /\ LET e == vector_extract(lex_in.persona, lex_in.scraped_job_data,
                               lex_in.product, lex_in.industry)
       IN  lex_out' = [fn |-> "vector_extract",
                       filter_keywords |-> e.filter_keywords,
                       query_text |-> Join(e.query_parts)]
    /\ UNCHANGED <<lex_in, agentVars>>

\* The head of the lite agent's retrieve(): _extract_filter_keywords, and
\* the query_text retrieve() tokenizes.
ApplyLiteExtract ==
    /\ lex_out.fn = "none"
    /\ lex_out' = [fn |-> "lite_extract",
                   filter_keywords |->
                       lite_extract_filter_keywords(lex_in.scraped_job_data,
                                                    lex_in.persona, lex_in.product),
                   query_text |->
                       lite_query_text(lex_in.persona, lex_in.scraped_job_data,
                                       lex_in.product, lex_in.industry)]
    /\ UNCHANGED <<lex_in, agentVars>>

ExtractNext ==
    \/ ApplyVectorExtract
    \/ ApplyLiteExtract

SpecExtract == ExtractInit /\ [][ExtractNext]_vars

\* C13: after keyword extraction (vector and lite), filter_keywords holds no
\* token of the exclusion list, whichever source contributed it (skills, job
\* keywords, role inference, product); the skills ["Health Insurance",
\* "Python", "401k"] give a set with "python" and without "insurance",
\* "health" and "401k".
C13_FilterKeywordsHoldNoExcludedToken ==
    lex_out.fn # "none"
        => (/\ lex_out.filter_keywords \cap EXCLUDE_KEYWORDS = {}
            /\ (lex_in.scraped_job_data # None
                /\ lex_in.scraped_job_data.skills = HealthPython401k)
                   => (/\ Lower(Python) \in lex_out.filter_keywords
                       /\ lex_out.filter_keywords
                          \cap {<<"i","n","s","u","r","a","n","c","e">>, <<"h","e","a","l","t","h">>, <<"4","0","1","k">>} = {}))

\* The keywords of the role-skill table's entry for a data scientist.
DataScientistKeywords ==
    {<<"p","y","t","h","o","n">>, <<"m","a","c","h","i","n","e">>, <<"l","e","a","r","n","i","n","g">>, <<"t","e","n","s","o","r","f","l","o","w">>, <<"p","a","n","d","a","s">>, <<"s","q","l">>}

\* C14: for job data with skills = [] and the role "Senior Data Scientist",
\* and nothing else, the extraction of each variant ends with filter_keywords
\* holding at least one of python, machine, learning, tensorflow, pandas,
\* sql, and the query_text it searches with is not empty.
C14_RoleInferenceSeedsKeywordsAndQuery ==
    (/\ lex_out.fn # "none"
     /\ lex_in.scraped_job_data # None
     /\ lex_in.scraped_job_data.skills = <<>>
     /\ lex_in.scraped_job_data.keywords = <<>>
     /\ lex_in.scraped_job_data.role = SeniorDataScientist
     /\ lex_in.persona = None
     /\ lex_in.product = <<>>
     /\ lex_in.industry = <<>>)
        => (/\ lex_out.filter_keywords \cap DataScientistKeywords # {}
            /\ lex_out.query_text # <<>>)

\* The keywords extracted from the skills and job keywords of a posting.
ExtractedKeywords(job) ==
    PhraseKeywords(TechPhrases(job.skills, 10, EXCLUDE_KEYWORDS))
    \cup PhraseKeywords(TechPhrases(job.keywords, 8, EXCLUDE_KEYWORDS))

\* The role table of the variant that was applied.
RoleTableOfLast ==
    IF lex_out.fn = "vector_extract" THEN role_skill_map ELSE ROLE_SKILL_MAP

\* C20: when job data with a role is given and no keyword extracted from
\* skills and job keywords is a recognised technical skill, the extracted
\* keywords are discarded and filter_keywords is seeded only from the first
\* role-table entry whose key is a substring of the lower-cased role; when
\* some extracted keyword is recognised, the extracted keywords are kept and
\* no role is inferred. Product words are added in either case.
C20_RoleInferenceReplacesUnrecognisedKeywords ==
    (/\ lex_out.fn # "none"
     /\ lex_in.scraped_job_data # None
     /\ lex_in.scraped_job_data.role # <<>>)
        => LET job == lex_in.scraped_job_data
               extracted == ExtractedKeywords(job)
               m == FirstRoleMatch(RoleTableOfLast, Lower(job.role))
               product_words == ProductKeywords(lex_in.product)
           IN  IF extracted \cap REAL_TECH_SKILLS = {}
               THEN m # 0 =>
                       /\ lex_out.filter_keywords
                          \subseteq Range(RoleTableOfLast[m].skills) \cup product_words
                       /\ lex_out.filter_keywords
                          \cap Range(RoleTableOfLast[m].skills) # {}
               ELSE lex_out.filter_keywords = extracted \cup product_words

\* ------------------------------------------------------------------------
\* Properties of loading and of retrieve() as an operation
\* ------------------------------------------------------------------------

\* A row of the file has a techstack, a link, and the link is an http(s) one.
RowIsValid(row) ==
    /\ ~IsBlankText(row.techstack)
    /\ ~IsBlankText(row.link)
    /\ BeginsWithHttp(Strip(row.link))

\* The techstack and link, stripped, of the valid rows of the file, in file
\* order.
ValidRowsOf(rows) ==
    LET kept == SelectSeq(rows, RowIsValid)
    IN  [i \in 1..Len(kept) |->
            [techstack |-> Strip(kept[i].techstack), link |-> Strip(kept[i].link)]]

\* C16: loading the portfolio CSV skips a row with an empty techstack, an
\* empty link or a link that is no http(s) link, without an error, and the
\* loaded corpus is exactly the remaining valid rows in file order; an
\* invalid row never keeps a later valid row from being loaded.  Stated for a
\* construction that loads (the file has the columns, the store is empty,
\* Pinecone is available) from a file with at least one valid row.
C16_LoadKeepsExactlyValidRows ==
    [][(/\ last = Idle /\ last'.op = "construct"
        /\ csv.exists /\ csv.has_columns
        /\ collection = <<>>
        /\ variant = "pinecone" => pinecone_available
        /\ ValidRowsOf(csv.rows) # <<>>)
          => (/\ last'.outcome = "ready"
              /\ LiveStore' = ValidRowsOf(csv.rows))]_vars

\* ------------------------------------------------------------------------
\* Successive retrieve() calls on one constructed agent: the lite, the vector
\* and the Pinecone portfolio agent and the lite template agent.  The state
\* is the agent with its file and its store, one earlier call that is
\* remembered, and the last call made with the arguments of the remembered
\* one.
\* ------------------------------------------------------------------------

\* The rows of the file the agent was built from: none, one or two rows or
\* templates of the pools.
CallCorpora == {<<>>, <<1>>, <<3>>, <<1, 2>>, <<3, 2>>}

CallInputs ==
    [agent : {"lite", "vector", "pinecone", "template_lite"},
     corpus : CallCorpora,
     top_k : TopKs]

NoCall == [request |-> None]

\* The agent as its constructor leaves it.  The portfolio agents read
\* data/my_portfolio.csv: the lite agent into self.portfolio_items, the
\* vector agent into its collection (and it raises on a file that gives no
\* document, so there is no such agent), the Pinecone agent into its index
\* when Pinecone is available.  The lite template agent reads the templates
\* of data/email_templates.json into self.templates.
CallInit ==
    /\ lex_in \in CallInputs
    /\ variant = (IF lex_in.agent = "template_lite" THEN "none" ELSE lex_in.agent)
    /\ top_k = lex_in.top_k
    /\ csv = IF lex_in.agent = "template_lite"
             THEN [exists |-> FALSE, has_columns |-> FALSE, rows |-> <<>>]
             ELSE [exists |-> TRUE, has_columns |-> TRUE, rows |-> LexRows]
    /\ lex_in.agent = "vector" => load_rows(csv.rows) # <<>>
    /\ pinecone_available \in (IF lex_in.agent = "pinecone" THEN BOOLEAN ELSE {FALSE})
    /\ str_hash \in (IF pinecone_available THEN HashFunctions ELSE {<<>>})
    /\ collection =
           IF lex_in.agent = "vector" \/ pinecone_available
           THEN Upsert(<<>>, load_rows(csv.rows)) ELSE <<>>
    /\ portfolio_items =
           IF lex_in.agent = "lite"
           THEN Value({[i \in 1..Len(docs) |-> lite_item(docs[i])]
                          : docs \in {load_rows(csv.rows)}})
           ELSE <<>>
    /\ agent = "ready"
    /\ added = <<>>
    /\ last = Idle
    /\ threads = <<>>
    /\ lex_out = [templates_file |->
                      IF lex_in.agent = "template_lite" THEN LexTemplates ELSE <<>>,
                  templates |->
                      IF lex_in.agent = "template_lite" THEN LexTemplates ELSE <<>>,
                  remembered |-> NoCall, call |-> NoCall]

\* The state after a call.  retrieve() assigns no attribute of the agent and
\* opens no file.  Any call may become the remembered one; a later call with
\* the arguments of the remembered one is kept beside it.
AfterCall(call) ==
    /\ \/ lex_out' = [lex_out EXCEPT !.remembered = call, !.call = call]
       \/ /\ lex_out.remembered # NoCall
          /\ call.request = lex_out.remembered.request
          /\ lex_out' = [lex_out EXCEPT !.call = call]
    /\ UNCHANGED <<lex_in, agentVars>>

CallLite(request) ==
    /\ lex_in.agent = "lite"
    /\ AfterCall([request |-> request, answer |-> NoAnswer,
                  result |-> Returned(lite_retrieve(portfolio_items, top_k,
                                 request.persona, request.scraped_job_data,
                                 request.product, request.industry))])

\* The extraction at the head of the vector agent's retrieve(), for each
\* request.
VectorExtracts ==
    [request \in Requests |->
        vector_extract(request.persona, request.scraped_job_data,
                       request.product, request.industry)]

\* retrieve() of the vector agent.  What collection.query answers is not a
\* function of the documents alone: the query text is embedded on each call,
\* by the hosted model or, when that call fails, by hashes, and the query
\* itself may raise, which retrieve() turns into an empty result.
CallVector(request) ==
    /\ lex_in.agent = "vector"
    /\ LET x == VectorExtracts[request]
       IN  IF Strip(Join(x.query_parts)) = <<>>
           THEN AfterCall([request |-> request, answer |-> NoAnswer,
                           result |-> Returned(<<>>)])
           ELSE \/ \E c \in StoreAnswers(collection, vector_n_results(top_k)) :
                       AfterCall([request |-> request,
                                  answer |-> [raised |-> FALSE, matches |-> c],
                                  result |-> Returned(vector_rank(
                                      c, x.filter_keywords, top_k))])
                \/ AfterCall([request |-> request,
                              answer |-> [raised |-> TRUE, matches |-> <<>>],
                              result |-> Returned(<<>>)])

\* retrieve() of the Pinecone agent: no query without Pinecone or without a
\* query text; a query that raises leaves retrieve() as it is.
CallPinecone(request) ==
    /\ lex_in.agent = "pinecone"
    /\ IF \/ ~pinecone_available
          \/ Strip(pinecone_query_text(request.persona, request.scraped_job_data,
                                       request.product, request.industry)) = <<>>
       THEN AfterCall([request |-> request, answer |-> NoAnswer,
                       result |-> Returned(<<>>)])
       ELSE \/ AfterCall([request |-> request,
                          answer |-> [raised |-> TRUE, matches |-> <<>>],
                          result |-> Raised("backend")])
            \/ \E c \in StoreAnswers(collection, top_k) :
                   AfterCall([request |-> request,
                              answer |-> [raised |-> FALSE, matches |-> c],
                              result |-> Returned(pinecone_format(c))])

CallTemplateLite(request) ==
    /\ lex_in.agent = "template_lite"
    /\ AfterCall([request |-> request, answer |-> NoAnswer,
                  result |-> template_lite_call(lex_out.templates, top_k,
                                 request.persona, request.product,
                                 request.industry)])

CallNext ==
    \E request \in Requests :
        \/ CallLite(request)
        \/ CallVector(request)
        \/ CallPinecone(request)
        \/ CallTemplateLite(request)

SpecCalls == CallInit /\ [][CallNext]_vars

\* C17: retrieve() is read-only and memoryless: it leaves the corpus or store
\* and the backing files as they were, and two retrieve() calls with equal
\* arguments and no add between them return equal results, whatever other
\* retrieve() calls were made before.
C17_RetrieveIsReadOnlyAndMemoryless ==
    /\ [][/\ csv' = csv
          /\ collection' = collection
          /\ portfolio_items' = portfolio_items
          /\ lex_out'.templates = lex_out.templates
          /\ lex_out'.templates_file = lex_out.templates_file]_vars
    /\ []((/\ lex_out.remembered # NoCall
           /\ lex_out.call.request = lex_out.remembered.request)
              => lex_out.call.result = lex_out.remembered.result)

\* ------------------------------------------------------------------------
\* utils/simple_matching.py on its own: calculate_similarity on token sets,
\* tokenize on texts
\* ------------------------------------------------------------------------

\* The tokens the sets are made of.
SimilarityTokens == {<<"c">>, <<"g","o">>, <<"s","q","l">>, <<"c","#">>}

SimilarityInit ==
    /\ lex_in \in [a : SUBSET SimilarityTokens, b : SUBSET SimilarityTokens]
    /\ lex_out = [fn |-> "none"]
    /\ AgentIdle

\* calculate_similarity(a, b) and calculate_similarity(b, a).
ApplyCalculateSimilarity ==
    /\ lex_out.fn = "none"
    /\ lex_out' = [fn |-> "calculate_similarity",
                   result |-> calculate_similarity(lex_in.a, lex_in.b),
                   swapped |-> calculate_similarity(lex_in.b, lex_in.a)]
    /\ UNCHANGED <<lex_in, agentVars>>

SpecSimilarity == SimilarityInit /\ [][ApplyCalculateSimilarity]_vars

\* The Jaccard index of two sets, 0 when either is empty.
Jaccard(a, b) ==
    IF a = {} \/ b = {} THEN <<0, 1>>
    ELSE <<Cardinality(a \cap b), Cardinality(a \cup b)>>

\* C18: calculate_similarity(a, b) is the Jaccard index |a & b| / |a | b| of
\* the token sets when both are non-empty and exactly 0.0 when either is
\* empty; so it lies in [0, 1], is symmetric, and is 1.0 exactly when a = b
\* and a is non-empty.
C18_SimilarityIsJaccard ==
    lex_out.fn = "calculate_similarity"
        => (/\ RatEq(lex_out.result, Jaccard(lex_in.a, lex_in.b))
            /\ (lex_in.a = {} \/ lex_in.b = {}) => lex_out.result[1] = 0
            /\ RatLE(<<0, 1>>, lex_out.result) /\ RatLE(lex_out.result, <<1, 1>>)
            /\ RatEq(lex_out.result, lex_out.swapped)
            /\ RatEq(lex_out.result, <<1, 1>>)
                   <=> (lex_in.a = lex_in.b /\ lex_in.a # {}))

\* The similarity of two different sets that share a token has been
\* computed: it lies strictly between 0 and 1.
C18_Witness ==
    /\ lex_out.fn = "calculate_similarity"
    /\ lex_in.a # lex_in.b
    /\ lex_in.a \cap lex_in.b # {}
    /\ RatLT(<<0, 1>>, lex_out.result) /\ RatLT(lex_out.result, <<1, 1>>)

\* The characters the texts are made of.
TextChars == {"c", "A", "+", "#", " "}

\* The longest text.
MaxTextLen == 3

TokenizeInit ==
    /\ lex_in \in [text : SeqsUpTo(TextChars, MaxTextLen)]
    /\ lex_out = [fn |-> "none"]
    /\ AgentIdle

ApplyTokenize ==
    /\ lex_out.fn = "none"
    /\ lex_out' = [fn |-> "tokenize", result |-> tokenize(lex_in.text)]
    /\ UNCHANGED <<lex_in, agentVars>>

SpecTokenize == TokenizeInit /\ [][ApplyTokenize]_vars

\* The maximal runs of characters of [a-z0-9+#] in a text.
MaximalRuns(s) ==
    LET InClass(c) == c \in LowerLetters \cup Digits \cup {"+", "#"}
    IN  {SubSeq(s, i, j) : <<i, j>> \in
            {<<i, j>> \in (1..Len(s)) \X (1..Len(s)) :
                /\ i <= j
                /\ \A k \in i..j : InClass(s[k])
                /\ i = 1 \/ ~InClass(s[i - 1])
                /\ j = Len(s) \/ ~InClass(s[j + 1])}}

\* C19: tokenize(text) is the set of the maximal runs of characters of
\* [a-z0-9+#] of the lower-cased text, so that "c++" and "c#" in a text are
\* members of the result; the empty text gives the empty set.
C19_TokensAreMaximalRuns ==
    lex_out.fn = "tokenize" => lex_out.result = MaximalRuns(Lower(lex_in.text))

\* ------------------------------------------------------------------------
\* Further properties of the keyword extraction
\* ------------------------------------------------------------------------

\* The role mentions software, engineer or developer.
MentionsSoftware(role_lower) ==
    \/ Contains(role_lower, <<"s","o","f","t","w","a","r","e">>)
    \/ Contains(role_lower, <<"e","n","g","i","n","e","e","r">>)
    \/ Contains(role_lower, <<"d","e","v","e","l","o","p","e","r">>)

\* The variant that was applied falls back to the role: the vector agent when
\* no extracted keyword is a recognised skill, the lite agent when nothing
\* was extracted.
FallbackTriggers ==
    /\ lex_in.scraped_job_data # None
    /\ lex_in.scraped_job_data.role # <<>>
    /\ IF lex_out.fn = "vector_extract"
       THEN ExtractedKeywords(lex_in.scraped_job_data) \cap REAL_TECH_SKILLS = {}
       ELSE ExtractedKeywords(lex_in.scraped_job_data) = {}

\* C21: when the fallback to the role triggers, no key of the role table is
\* a substring of the role, and the role holds "software", "engineer" or
\* "developer", filter_keywords and query_text are seeded with the generic
\* software skills, in the vector and in the lite agent.
C21_GenericSoftwareSkillsSeeded ==
    (/\ lex_out.fn # "none"
     /\ FallbackTriggers
     /\ FirstRoleMatch(RoleTableOfLast, Lower(lex_in.scraped_job_data.role)) = 0
     /\ MentionsSoftware(Lower(lex_in.scraped_job_data.role)))
        => (/\ Range(default_skills) \subseteq lex_out.filter_keywords
            /\ Contains(lex_out.query_text, Join(default_skills)))

\* ------------------------------------------------------------------------
\* The ranking of the portfolio agents on its own: the vector agent's
\* retrieve() on what the store answers, the lite agent's retrieve() on its
\* items.
\* ------------------------------------------------------------------------

\* A posting whose skills are "Go", a word too short to become a filter
\* keyword, and "Rust".
JobGoRust ==
    [role |-> <<>>,
     skills |-> <<<<"G","o">>, <<"R","u","s","t">>>>,
     keywords |-> <<>>,
     responsibilities |-> <<>>]

RankRequests ==
    Requests \cup {[persona |-> None, scraped_job_data |-> JobGoRust,
                    product |-> <<>>, industry |-> <<>>]}

\* The rows of the file the agent was built from, as indices of the pool:
\* up to four rows, one of them with a row repeated.
RankCorpora ==
    {<<>>, <<2>>, <<1, 2>>, <<2, 3>>, <<3, 1>>, <<1, 2, 3>>, <<2, 1, 3>>,
     <<2, 2, 2, 1>>}

RankInputs ==
    [agent : {"vector", "lite"},
     corpus : RankCorpora,
     request : RankRequests,
     top_k : TopKs]

\* The agent is one its constructor built: the vector agent raises on a
\* file that gives no document.
RankInit ==
    /\ lex_in \in RankInputs
    /\ lex_in.agent = "vector" => load_rows(LexRows) # <<>>
    /\ lex_out = [fn |-> "none"]
    /\ AgentIdle

\* The extraction at the head of the vector agent's retrieve(), for each
\* request.
RankExtracts ==
    [request \in RankRequests |->
        vector_extract(request.persona, request.scraped_job_data,
                       request.product, request.industry)]

\* The candidates of a call: techstack, link and distance, the distance a
\* rational.
RankCandidate(techstack, link, distance) ==
    [techstack |-> techstack, link |-> link, distance |-> distance]

\* retrieve() of the vector agent: no query for an empty query text; else the
\* store raises, or answers and the answer is ranked.
ApplyVectorRank ==
    /\ lex_out.fn = "none"
    /\ lex_in.agent = "vector"
    /\ LET x == RankExtracts[lex_in.request]
           store == load_rows(LexRows)
       IN  IF Strip(Join(x.query_parts)) = <<>>
           THEN lex_out' = [fn |-> "vector", backend |-> "not_called",
                            filter_keywords |-> x.filter_keywords,
                            requested |-> 0,
                            candidates |-> <<>>, result |-> <<>>]
           ELSE \/ lex_out' = [fn |-> "vector", backend |-> "raised",
                               filter_keywords |-> x.filter_keywords,
                               requested |-> vector_n_results(lex_in.top_k),
                               candidates |-> <<>>, result |-> <<>>]
                \/ \E c \in StoreAnswers(store, vector_n_results(lex_in.top_k)) :
                       lex_out' =
                           [fn |-> "vector", backend |-> "answered",
                            filter_keywords |-> x.filter_keywords,
                            requested |-> vector_n_results(lex_in.top_k),
                            candidates |->
                                [i \in 1..Len(c) |->
                                    RankCandidate(c[i].techstack, c[i].link,
                                                  <<c[i].distance, 100>>)],
                            result |-> vector_rank(c, x.filter_keywords,
                                                   lex_in.top_k)]
    /\ UNCHANGED <<lex_in, agentVars>>

\* retrieve() of the lite agent: every item is a candidate, at the distance
\* 1 - similarity.
ApplyLiteRank ==
    /\ lex_out.fn = "none"
    /\ lex_in.agent = "lite"
    /\ LET request == lex_in.request
           items == ItemsOf(LexRows)
           query_tokens == tokenize(lite_query_text(request.persona,
                               request.scraped_job_data, request.product,
                               request.industry))
       IN  lex_out' =
               [fn |-> "lite",
                backend |-> IF items = <<>> THEN "not_called" ELSE "scored",
                filter_keywords |->
                    lite_extract_filter_keywords(request.scraped_job_data,
                                                 request.persona, request.product),
                requested |-> 0,
                candidates |->
                    [i \in 1..Len(items) |->
                        LET similarity == calculate_similarity(query_tokens,
                                                               items[i].tokens)
                        IN  RankCandidate(items[i].techstack, items[i].link,
                                <<similarity[2] - similarity[1], similarity[2]>>)],
                result |-> lite_retrieve(items, lex_in.top_k, request.persona,
                                         request.scraped_job_data,
                                         request.product, request.industry)]
    /\ UNCHANGED <<lex_in, agentVars>>

RankNext ==
    \/ ApplyVectorRank
    \/ ApplyLiteRank

SpecRank == RankInit /\ [][RankNext]_vars

\* The acceptance rule: no filter keyword at all, or a filter keyword in the
\* lower-cased text, or a distance below 0.8 and a common skill in the text.
RuleAccepts(filter_keywords, candidate) ==
    \/ filter_keywords = {}
    \/ \E k \in filter_keywords : Contains(Lower(candidate.techstack), k)
    \/ /\ RatLT(candidate.distance, <<4, 5>>)
       /\ \E k \in COMMON_SKILL_KEYWORDS : Contains(Lower(candidate.techstack), k)

\* The candidate is among the returned items.
IsReturned(candidate) ==
    \E i \in 1..Len(lex_out.result) :
        /\ lex_out.result[i].tech_stack = candidate.techstack
        /\ lex_out.result[i].link = candidate.link

\* C22: a raw candidate is accepted exactly when filter_keywords is empty, or
\* a filter keyword is a substring of its lower-cased text, or its distance
\* is below 0.8 and a common skill is a substring of the text; every other
\* candidate is skipped.  The lite agent applies the rule with distance =
\* 1 - similarity.  Read on calls whose top_k covers every candidate, over
\* rows that differ, where accepted and returned are the same.
C22_AcceptanceRule ==
    (/\ lex_out.fn # "none"
     /\ lex_out.backend \in {"answered", "scored"}
     /\ Cardinality(Range(lex_in.corpus)) = Len(lex_in.corpus)
     /\ lex_in.top_k >= Len(lex_out.candidates))
        => \A i \in 1..Len(lex_out.candidates) :
               IsReturned(lex_out.candidates[i])
                   <=> RuleAccepts(lex_out.filter_keywords, lex_out.candidates[i])

\* The candidates of the last call that the acceptance rule accepts, in
\* their arrival order.
AcceptedCandidates ==
    SelectSeq(lex_out.candidates,
              LAMBDA c : RuleAccepts(lex_out.filter_keywords, c))

\* C23: in the vector agent the returned sequence is exactly the first top_k
\* accepted candidates in the store's arrival order: an order-preserving
\* subsequence of the raw candidates, on which candidates after the top_k-th
\* acceptance have no effect, and in which candidates at equal distance keep
\* their arrival order.
C23_FirstTopKAcceptedInArrivalOrder ==
    (lex_out.fn = "vector" /\ lex_out.backend = "answered")
        => (/\ Len(lex_out.result)
                  = (IF lex_in.top_k < Len(AcceptedCandidates)
                     THEN lex_in.top_k ELSE Len(AcceptedCandidates))
            /\ \A i \in 1..Len(lex_out.result) :
                   /\ lex_out.result[i].tech_stack = AcceptedCandidates[i].techstack
                   /\ lex_out.result[i].link = AcceptedCandidates[i].link)

\* The store answered three candidates, the first is skipped, the other two
\* are accepted at equal distance, and top_k = 1 returns the one that
\* arrived first.
C23_Witness ==
    /\ lex_out.fn = "vector" /\ lex_out.backend = "answered"
    /\ lex_in.top_k = 1
    /\ Len(lex_out.candidates) = 3
    /\ ~RuleAccepts(lex_out.filter_keywords, lex_out.candidates[1])
    /\ Len(AcceptedCandidates) = 2
    /\ AcceptedCandidates[1].distance = AcceptedCandidates[2].distance
    /\ AcceptedCandidates[1].techstack # AcceptedCandidates[2].techstack
    /\ Len(lex_out.result) = 1
    /\ lex_out.result[1].tech_stack = AcceptedCandidates[1].techstack

\* C24: every agent that queries a candidate store asks it for exactly
\* min(top_k * 3, 10) raw candidates, a number never smaller than top_k;
\* here for the vector and Pinecone template agents, on calls that reach the
\* query.
C24_OverFetch ==
    (/\ lex_out.fn \in {"template_vector", "template_pinecone"}
     /\ lex_in.request.persona # None)
        => (/\ lex_out.requested
                  = (IF lex_in.top_k * 3 < 10 THEN lex_in.top_k * 3 ELSE 10)
            /\ lex_out.requested >= lex_in.top_k)

\* The Jaccard similarity of the query and the candidate behind a returned
\* item: 1 - distance of the candidate with its techstack and link.
JaccardOfReturned(item) ==
    LET c == CHOOSE c \in Range(lex_out.candidates) :
                 c.techstack = item.tech_stack /\ c.link = item.link
    IN  <<c.distance[2] - c.distance[1], c.distance[2]>>

\* C25: in the lexical agents the similarity_score of a returned item is
\* clamp(1 - distance, 0, 1) with distance = 1 - Jaccard, that is the Jaccard
\* similarity of the query tokens and the document tokens, and the result is
\* in descending order of that similarity; here for the lite portfolio agent.
C25_LiteScoreIsJaccard ==
    lex_out.fn = "lite"
        => (/\ \A i \in 1..Len(lex_out.result) :
                   RatEq(lex_out.result[i].similarity_score,
                         JaccardOfReturned(lex_out.result[i]))
            /\ \A i \in 1..(Len(lex_out.result) - 1) :
                   RatLE(JaccardOfReturned(lex_out.result[i + 1]),
                         JaccardOfReturned(lex_out.result[i])))

\* The positions of the stored documents that pass the keyword test of the
\* last call: no filter keyword at all, or a filter keyword in the text.
StoredPassing ==
    LET store == load_rows(LexRows)
    IN  {i \in 1..Len(store) :
            \/ lex_out.filter_keywords = {}
            \/ \E k \in lex_out.filter_keywords :
                   Contains(Lower(store[i].techstack), k)}

\* C26: in the vector agent, whenever the query text is not empty, the
\* backend answers, and at least top_k stored documents pass the keyword
\* test, retrieve() returns exactly top_k items.
C26_TopKItemsWhenEnoughPass ==
    (/\ lex_out.fn = "vector"
     /\ lex_out.backend = "answered"
     /\ Cardinality(StoredPassing) >= lex_in.top_k)
        => Len(lex_out.result) = lex_in.top_k

\* ------------------------------------------------------------------------
\* utils/vector_store.py: PineconeCollection, add and query on one index
\* ------------------------------------------------------------------------

\* The ids and the texts of the calls.
EmbedIds == {"p0", "p1", "p2"}

EmbedTexts == {Python, GoKubernetes}

\* _fallback_embeddings(): a vector computed from md5 of the lower-cased,
\* stripped text.  A vector is modelled by the method that produced it and
\* the text it is a function of.
fallback_embeddings(texts) ==
    [i \in 1..Len(texts) |-> [method |-> "hash", text |-> Strip(Lower(texts[i]))]]

\* _get_embeddings(): the vectors of the inference API for the whole list,
\* or, when that call raises, the fallback vectors for the whole list.
get_embeddings(texts, inference_fails) ==
    IF inference_fails
    THEN fallback_embeddings(texts)
    ELSE [i \in 1..Len(texts) |-> [method |-> "hosted", text |-> texts[i]]]

\* No vector under an id.
NoVector == [method |-> "none", text |-> <<>>]

\* The ids the index holds a vector under.
StoredIds(index) == {id \in EmbedIds : index[id] # NoVector}

\* index.upsert(vectors=batch): each id of the batch now holds its vector; a
\* later entry of the batch under the same id wins.
index_upsert(index, ids, embeddings) ==
    [id \in EmbedIds |->
        IF \E i \in 1..Len(ids) : ids[i] = id
        THEN embeddings[CHOOSE i \in 1..Len(ids) :
                            /\ ids[i] = id
                            /\ \A j \in (i + 1)..Len(ids) : ids[j] # id]
        ELSE index[id]]

\* The batches of an add: one or two documents under ids.
EmbedBatches ==
    {b \in SeqsUpTo(EmbedIds \X EmbedTexts, 2) : b # <<>>}

EmbedInit ==
    /\ lex_in = [index |-> [id \in EmbedIds |-> NoVector]]
    /\ lex_out = [fn |-> "none"]
    /\ AgentIdle

\* add(): one _get_embeddings call for all documents, then the upsert, which
\* may raise.
PineconeAdd ==
    \E batch \in EmbedBatches, inference_fails \in BOOLEAN, upsert_raises \in BOOLEAN :
        LET ids == [i \in 1..Len(batch) |-> batch[i][1]]
            documents == [i \in 1..Len(batch) |-> batch[i][2]]
            embeddings == get_embeddings(documents, inference_fails)
        IN  /\ lex_in' = [index |-> IF upsert_raises THEN lex_in.index
                                    ELSE index_upsert(lex_in.index, ids, embeddings)]
            /\ lex_out' = [fn |-> "add", raised |-> upsert_raises,
                           vector |-> embeddings[1], compared |-> {},
                           ids |-> {}]
            /\ UNCHANGED agentVars

\* query(): one _get_embeddings call for the query text, then index.query,
\* which scores the query vector against every stored vector and answers
\* the n_results best, or raises.
PineconeQuery ==
    \E text \in EmbedTexts, n_results \in TopKs,
       inference_fails \in BOOLEAN, query_raises \in BOOLEAN :
        LET query_embedding == get_embeddings(<<text>>, inference_fails)[1]
            stored == StoredIds(lex_in.index)
            m == IF n_results < Cardinality(stored) THEN n_results
                 ELSE Cardinality(stored)
        IN  /\ \E ids \in {S \in SUBSET stored : Cardinality(S) = m} :
                   lex_out' = [fn |-> "query", raised |-> query_raises,
                               vector |-> query_embedding,
                               compared |-> IF query_raises THEN {}
                                            ELSE {lex_in.index[id] : id \in stored},
                               ids |-> IF query_raises THEN {} ELSE ids]
            /\ UNCHANGED <<lex_in, agentVars>>

EmbedNext ==
    \/ PineconeAdd
    \/ PineconeQuery

SpecEmbed == EmbedInit /\ [][EmbedNext]_vars

\* C27: every query vector is compared only against stored vectors of the
\* same embedding method: after any sequence of add and query calls,
\* hosted-model vectors and hash-fallback vectors are never mixed within
\* the index or between the index and a query.
C27_OneEmbeddingMethod ==
    /\ \A a, b \in StoredIds(lex_in.index) :
           lex_in.index[a].method = lex_in.index[b].method
    /\ lex_out.fn = "query"
           => \A v \in lex_out.compared : v.method = lex_out.vector.method

\* ------------------------------------------------------------------------
\* The role inference of the portfolio agents on roles built from the keys
\* of the role tables
\* ------------------------------------------------------------------------

\* The keys of both tables, and each key after "Senior ".
RoleKeys ==
    {role_skill_map[i].key : i \in 1..Len(role_skill_map)}
        \cup {ROLE_SKILL_MAP[i].key : i \in 1..Len(ROLE_SKILL_MAP)}

RoleInputs ==
    RoleKeys \cup {<<"S","e","n","i","o","r"," ">> \o k : k \in RoleKeys}

\* A posting that names a role and nothing else.
JobOfRole(role) ==
    [role |-> role, skills |-> <<>>, keywords |-> <<>>, responsibilities |-> <<>>]

RoleInit ==
    /\ lex_in \in [agent : {"vector", "lite"}, role : RoleInputs]
    /\ lex_out = [fn |-> "none"]
    /\ AgentIdle

\* The head of the vector agent's retrieve() on the posting.
ApplyVectorRoleInference ==
    /\ lex_out.fn = "none"
    /\ lex_in.agent = "vector"
    /\ lex_out' = [fn |-> "vector_role",
                   filter_keywords |->
                       vector_extract(None, JobOfRole(lex_in.role),
                                      <<>>, <<>>).filter_keywords]
    /\ UNCHANGED <<lex_in, agentVars>>

\* _extract_filter_keywords of the lite agent on the posting.
ApplyLiteRoleInference ==
    /\ lex_out.fn = "none"
    /\ lex_in.agent = "lite"
    /\ lex_out' = [fn |-> "lite_role",
                   filter_keywords |->
                       lite_extract_filter_keywords(JobOfRole(lex_in.role),
                                                    None, <<>>)]
    /\ UNCHANGED <<lex_in, agentVars>>

RoleNext ==
    \/ ApplyVectorRoleInference
    \/ ApplyLiteRoleInference

SpecRole == RoleInit /\ [][RoleNext]_vars

\* C28: every entry of the role table is reachable, in the vector and in the
\* lite agent: no entry is shadowed by an earlier key that is a substring of
\* its key.  The role that is the key itself holds every substring of the
\* key, so the entry is reachable exactly when that role gets the entry's
\* skills (the first five in the vector agent, the first four in the lite
\* agent).
C28_EveryRoleEntryApplies ==
    lex_out.fn # "none"
        => LET table == IF lex_in.agent = "vector" THEN role_skill_map
                        ELSE ROLE_SKILL_MAP
               n == IF lex_in.agent = "vector" THEN 5 ELSE 4
           IN  \A i \in 1..Len(table) :
                   table[i].key = lex_in.role
                       => lex_out.filter_keywords
                              = Range(PySliceTo(table[i].skills, n))

\* ------------------------------------------------------------------------
\* main.py: EMAIL_CACHE, the response cache of POST /generate, which POST
\* /generate-from-leads writes to as well and GET /health cleans
\* ------------------------------------------------------------------------

\* CACHE_TTL, in seconds.
CACHE_TTL == 3600

\* The seconds between two instants of the clock, and the last instant.
CacheTick == 1800

MaxClock == 5400

\* The requests: with a job_url and no role, or without a job_url and with
\* or without a role; with or without a company_name.
CacheRequests ==
    [job_url : {MissingStr},
     role : {MissingStr, BackendEngineer},
     industry : {Technology},
     tone : {<<"w","a","r","m">>},
     company_name : {MissingStr, <<"A","c","m","e">>},
     recipient_name : {MissingStr},
     sender_name : {<<"A","l","e","x">>},
     sender_company : {<<"T","S">>},
     sender_services : {<<"d","e","v">>}]
    \cup
    [job_url : {LinkA},
     role : {MissingStr},
     industry : {Technology},
     tone : {<<"w","a","r","m">>},
     company_name : {MissingStr, <<"A","c","m","e">>},
     recipient_name : {MissingStr},
     sender_name : {<<"A","l","e","x">>},
     sender_company : {<<"T","S">>},
     sender_services : {<<"d","e","v">>}]

\* cache_key_data; md5 of it is the key, taken here to tell any two of these
\* texts apart.
cache_key(request) ==
    JoinWith(<<"|">>, <<FormatStr(request.job_url), FormatStr(request.role),
                        FormatStr(request.industry), FormatStr(request.tone),
                        FormatStr(request.sender_name),
                        FormatStr(request.sender_company),
                        FormatStr(request.sender_services)>>)

\* The entries of EMAIL_CACHE under a key (at most one).
CacheEntries(cache, key) == {e \in cache : e.key = key}

CacheInit ==
    /\ lex_in = [EMAIL_CACHE |-> {}, clock |-> 0]
    /\ lex_out = [fn |-> "none"]
    /\ AgentIdle

\* time.time() advances between two requests.
Elapse ==
    /\ lex_in.clock + CacheTick <= MaxClock
    /\ lex_in' = [lex_in EXCEPT !.clock = @ + CacheTick]
    /\ UNCHANGED <<lex_out, agentVars>>

\* The response of the pipeline for an AgentRequest, formatted by POST
\* /generate (response_data) or by POST /generate-from-leads (lead_result,
\* which has the keys lead and status).
PipelineResponse(kind, request, now, lead) ==
    [kind |-> kind, produced_for |-> request, generated_at |-> now, lead |-> lead]

\* generate_email(): 400 without a job_url and without role and industry; a
\* cached response when the key is in EMAIL_CACHE and the entry is younger
\* than CACHE_TTL; otherwise an expired entry is deleted and the pipeline
\* runs, for no time or one tick, and its response is stored under the key,
\* or it raises and the handler answers 500.
GenerateEmail ==
    \E request \in CacheRequests, pipeline_raises \in BOOLEAN,
       took \in {0, CacheTick} :
        LET key == cache_key(request)
            found == CacheEntries(lex_in.EMAIL_CACHE, key)
            fresh == {e \in found : lex_in.clock - e.timestamp < CACHE_TTL}
            kept == lex_in.EMAIL_CACHE \ found
            response == PipelineResponse("response_data", request,
                                         lex_in.clock + took, {})
        IN  IF IsFalsy(request.job_url)
               /\ (IsFalsy(request.role) \/ IsFalsy(request.industry))
            THEN /\ lex_out' = [fn |-> "generate", status |-> 400,
                                request |-> request, response |-> {},
                                pipeline_ran |-> FALSE, at |-> lex_in.clock]
                 /\ UNCHANGED <<lex_in, agentVars>>
            ELSE IF fresh # {}
            THEN /\ lex_out' = [fn |-> "generate", status |-> 200,
                                request |-> request,
                                response |-> {e.response : e \in fresh},
                                pipeline_ran |-> FALSE, at |-> lex_in.clock]
                 /\ UNCHANGED <<lex_in, agentVars>>
            ELSE /\ lex_in.clock + took <= MaxClock
                 /\ IF pipeline_raises
                    THEN /\ lex_in' = [EMAIL_CACHE |-> kept,
                                       clock |-> lex_in.clock + took]
                         /\ lex_out' = [fn |-> "generate", status |-> 500,
                                        request |-> request, response |-> {},
                                        pipeline_ran |-> TRUE,
                                        at |-> lex_in.clock + took]
                    ELSE /\ lex_in' = [EMAIL_CACHE |->
                                           kept \cup
                                               {[key |-> key,
                                                 response |-> response,
                                                 timestamp |-> lex_in.clock + took]},
                                       clock |-> lex_in.clock + took]
                         /\ lex_out' = [fn |-> "generate", status |-> 200,
                                        request |-> request,
                                        response |-> {response},
                                        pipeline_ran |-> TRUE,
                                        at |-> lex_in.clock + took]
                 /\ UNCHANGED agentVars

\* cleanup_expired_cache(): the entries older than CACHE_TTL go.
cleanup_expired_cache(cache, current_time) ==
    {e \in cache : ~(current_time - e.timestamp > CACHE_TTL)}

\* GET /health
HealthCheck ==
    /\ lex_in' = [lex_in EXCEPT
                     !.EMAIL_CACHE = cleanup_expired_cache(@, lex_in.clock)]
    /\ lex_out' = [fn |-> "health", status |-> 200, at |-> lex_in.clock]
    /\ UNCHANGED agentVars

PipeBackendTechnology ==
    <<"N","o","n","e","|">> \o BackendEngineer \o <<"|">> \o Technology

\* The leads the lead sourcing agent finds (LeadData.to_dict()): one of a
\* company without a category, and two whose company_name holds the
\* separator of the cache key and that differ in their website.
Leads ==
    [company_name : {<<"A","c","m","e">>}, website : {LinkA},
     phone : {MissingStr}, address : {MissingStr}, rating : {MissingStr},
     reviews_count : {MissingStr}, category : {MissingStr}]
    \cup
    [company_name : {PipeBackendTechnology}, website : {LinkA, LinkB},
     phone : {MissingStr}, address : {MissingStr}, rating : {MissingStr},
     reviews_count : {MissingStr}, category : {<<"w","a","r","m">>}]

\* The most leads of one request.
MaxLeads == 1

\* The sender fields of a LeadGenerationRequest.
LeadRequests ==
    {[sender_name |-> <<"d","e","v">>, sender_company |-> <<"T","S">>,
      sender_services |-> <<"A","l","e","x">>, tone |-> <<"T","S">>]}

\* lead_cache_key_data; md5 of it is the key.
lead_cache_key(lead, request) ==
    JoinWith(<<"|">>, <<FormatStr(lead.company_name), FormatStr(lead.category),
                        FormatStr(request.sender_services),
                        FormatStr(request.tone), FormatStr(request.sender_name)>>)

\* The AgentRequest made for a lead.
lead_agent_request(lead, request) ==
    [job_url |-> MissingStr,
     role |-> request.sender_services,
     industry |-> IF IsFalsy(lead.category)
                  THEN <<"B","u","s","i","n","e","s","s">> ELSE lead.category,
     tone |-> request.tone,
     company_name |-> lead.company_name,
     recipient_name |-> <<"H","i","r","i","n","g"," ","M","a","n","a","g","e","r">>,
     sender_name |-> request.sender_name,
     sender_company |-> request.sender_company,
     sender_services |-> request.sender_services]

\* The loop of generate_from_leads from lead idx on, with the cache and the
\* clock as they are then: a lead whose key has an entry younger than
\* CACHE_TTL takes the cached result, which gets the lead written into it;
\* for every other lead the pipeline runs, and its result is stored under the
\* key unless it raised.  The result appended is the dict the cache holds,
\* not a copy: a lead written into it later, for a later lead with the same
\* key, shows in the results already appended as it shows in the cache.
\* `written` is the last lead that the loop from idx on writes into the dict
\* each key holds when it starts.
RECURSIVE leads_from(_, _, _, _, _, _, _)
leads_from(leads, idx, request, cache, clock, raises, took) ==
    IF idx > Len(leads)
    THEN [cache |-> cache, clock |-> clock, results |-> <<>>, written |-> {}]
    ELSE LET lead == leads[idx]
             key == lead_cache_key(lead, request)
             found == CacheEntries(cache, key)
             fresh == {e \in found : clock - e.timestamp < CACHE_TTL}
             now == clock + took[idx]
             step ==
                 IF fresh # {}
                 THEN LET entry == CHOOSE e \in fresh : TRUE
                          cached_result == [entry.response EXCEPT !.lead = {lead}]
                      IN  [cache |-> (cache \ found) \cup
                                       {[entry EXCEPT !.response = cached_result]},
                           clock |-> clock,
                           result |-> cached_result]
                 ELSE IF raises[idx]
                 THEN [cache |-> cache, clock |-> now,
                       result |-> PipelineResponse("failed",
                                      lead_agent_request(lead, request), now, {lead})]
                 ELSE LET lead_result ==
                              PipelineResponse("lead_result",
                                  lead_agent_request(lead, request), now, {lead})
                      IN  [cache |-> (cache \ found) \cup
                                       {[key |-> key, response |-> lead_result,
                                         timestamp |-> now]},
                           clock |-> now,
                           result |-> lead_result]
         IN  Value({Value({
                 [cache |-> rest.cache, clock |-> rest.clock,
                  results |->
                      <<IF (fresh # {} \/ ~raises[idx]) /\ later # {}
                        THEN [step.result EXCEPT
                                  !.lead = {(CHOOSE w \in later : TRUE).lead}]
                        ELSE step.result>> \o rest.results,
                  written |->
                      IF fresh # {}
                      THEN (IF later # {} THEN rest.written
                            ELSE rest.written \cup {[key |-> key, lead |-> lead]})
                      ELSE IF raises[idx] THEN rest.written
                      ELSE rest.written \ later]
                     : later \in {{w \in rest.written : w.key = key}}})
                 : rest \in {leads_from(leads, idx + 1, request, step.cache,
                                        step.clock, raises, took)}})

leads_loop(leads, idx, request, cache, clock, raises, took) ==
    Value({[cache |-> done.cache, clock |-> done.clock, results |-> done.results]
              : done \in {leads_from(leads, idx, request, cache, clock, raises, took)}})

\* generate_from_leads(): 500 when the lead sourcing raises and 404 without
\* leads; else the loop over the leads, and 200 with the results, or 500
\* when a result taken from the cache is a response of POST /generate, which
\* has no status to count.
GenerateFromLeads ==
    \E request \in LeadRequests, leads \in SeqsUpTo(Leads, MaxLeads),
       sourcing_raises \in BOOLEAN :
    \E raises \in [1..Len(leads) -> BOOLEAN],
       took \in [1..Len(leads) -> {0, CacheTick}] :
        IF sourcing_raises \/ leads = <<>>
        THEN /\ lex_out' = [fn |-> "leads",
                            status |-> IF sourcing_raises THEN 500 ELSE 404,
                            results |-> <<>>, at |-> lex_in.clock]
             /\ UNCHANGED <<lex_in, agentVars>>
        ELSE LET done == leads_loop(leads, 1, request, lex_in.EMAIL_CACHE,
                                    lex_in.clock, raises, took)
             IN  /\ done.clock <= MaxClock
                 /\ lex_in' = [EMAIL_CACHE |-> done.cache, clock |-> done.clock]
                 /\ lex_out' =
                        [fn |-> "leads",
                         status |-> IF \E i \in 1..Len(done.results) :
                                           done.results[i].kind = "response_data"
                                    THEN 500 ELSE 200,
                         results |-> done.results, at |-> done.clock]
                 /\ UNCHANGED agentVars

CacheNext ==
    \/ Elapse
    \/ GenerateEmail
    \/ HealthCheck
    \/ GenerateFromLeads

SpecCache == CacheInit /\ [][CacheNext]_vars

\* C29: a cached response is returned only to a request whose parameters
\* (job_url, role, industry, tone, company_name, recipient_name, sender_name,
\* sender_company, sender_services) all equal those of the request that
\* produced it, and only while the entry is younger than CACHE_TTL; in every
\* other case the pipeline is executed again.
C29_CacheHitOnlyForEqualRequest ==
    (lex_out.fn = "generate" /\ lex_out.status = 200 /\ ~lex_out.pipeline_ran)
        => \A r \in lex_out.response :
               /\ r.produced_for = lex_out.request
               /\ lex_out.at - r.generated_at < CACHE_TTL

\* ------------------------------------------------------------------------
\* utils/groq_client.py: RateLimitedChatGroq.invoke called by several threads
\* ------------------------------------------------------------------------

\* Time is counted in half seconds.  _min_interval (1.5 s):
min_interval == 3

\* The calls a thread makes, and the instant after which the clock only
\* advances while a thread sleeps.
MaxCalls == 2

MaxTime == 6

RateThreads == {"t1", "t2"}

RateInstances == {"llm_a", "llm_b"}

\* An invoke() that does not wait.
sleep_time_none(elapsed) == 0

\* sleep_time = _min_interval - elapsed
sleep_time(elapsed) == min_interval - elapsed

\* The class attributes _lock and _last_call_time, one of each for every
\* instance, and the clock; each thread's position in invoke() and its
\* locals.  time.time() is far from 0.0 when the process starts.
RateInit ==
    /\ lex_in = [lock |-> "free", last_call_time |-> 0, clock |-> min_interval,
                 recorded |-> 0]
    /\ lex_out = [t \in RateThreads |->
                     [pc |-> "idle", instance |-> "none", now |-> 0,
                      wake |-> 0, calls |-> 0]]
    /\ AgentIdle

\* A thread calls invoke() on an instance.
Invoke(t) ==
    /\ lex_out[t].pc = "idle"
    /\ lex_out[t].calls < MaxCalls
    /\ \E instance \in RateInstances :
           lex_out' = [lex_out EXCEPT ![t].pc = "acquire",
                                      ![t].instance = instance,
                                      ![t].calls = @ + 1]
    /\ UNCHANGED <<lex_in, agentVars>>

\* with RateLimitedChatGroq._lock: the lock is taken when it is free.
Acquire(t) ==
    /\ lex_out[t].pc = "acquire"
    /\ lex_in.lock = "free"
    /\ lex_in' = [lex_in EXCEPT !.lock = t]
    /\ lex_out' = [lex_out EXCEPT ![t].pc = "locked"]
    /\ UNCHANGED agentVars

\* now = time.time(); elapsed = now - _last_call_time; time.sleep(sleep_time)
\* begins when elapsed < _min_interval.
ReadClock(t) ==
    /\ lex_out[t].pc = "locked"
    /\ LET now == lex_in.clock
           elapsed == now - lex_in.last_call_time
       IN  lex_out' = IF elapsed < min_interval
                      THEN [lex_out EXCEPT ![t].pc = "sleeping",
                                           ![t].now = now,
                                           ![t].wake = now + sleep_time(elapsed)]
                      ELSE [lex_out EXCEPT ![t].pc = "record",
                                           ![t].now = now,
                                           ![t].wake = 0]
    /\ UNCHANGED <<lex_in, agentVars>>

\* time.sleep() returns once the time asked for has passed.
Wake(t) ==
    /\ lex_out[t].pc = "sleeping"
    /\ lex_in.clock >= lex_out[t].wake
    /\ lex_out' = [lex_out EXCEPT ![t].pc = "record"]
    /\ UNCHANGED <<lex_in, agentVars>>

\* _last_call_time = time.time(), and the with block releases the lock.
RecordAndRelease(t) ==
    /\ lex_out[t].pc = "record"
    /\ lex_in' = [lex_in EXCEPT !.last_call_time = lex_in.clock,
                                !.lock = "free",
                                !.recorded = @ + 1]
    /\ lex_out' = [lex_out EXCEPT ![t].pc = "api"]
    /\ UNCHANGED agentVars

\* super().invoke() returns or raises.
ApiReturn(t) ==
    /\ lex_out[t].pc = "api"
    /\ lex_out' = [lex_out EXCEPT ![t].pc = "idle"]
    /\ UNCHANGED <<lex_in, agentVars>>

\* Time passes.
RateTick ==
    /\ \/ lex_in.clock < MaxTime
       \/ \E t \in RateThreads :
              lex_out[t].pc = "sleeping" /\ lex_in.clock < lex_out[t].wake
    /\ lex_in' = [lex_in EXCEPT !.clock = @ + 1]
    /\ UNCHANGED <<lex_out, agentVars>>

RateNext ==
    \/ \E t \in RateThreads : Invoke(t)
    \/ \E t \in RateThreads : Acquire(t)
    \/ \E t \in RateThreads : ReadClock(t)
    \/ \E t \in RateThreads : Wake(t)
    \/ \E t \in RateThreads : RecordAndRelease(t)
    \/ \E t \in RateThreads : ApiReturn(t)
    \/ RateTick

\* Threads are scheduled and time passes; the API call itself may take for
\* ever.
SpecRate ==
    /\ RateInit
    /\ [][RateNext]_vars
    /\ WF_vars(RateTick)
    /\ \A t \in RateThreads :
           /\ WF_vars(Acquire(t))
           /\ WF_vars(ReadClock(t))
           /\ WF_vars(Wake(t))
           /\ WF_vars(RecordAndRelease(t))

\* C30: for any interleaving of threads calling invoke() on any instances,
\* the recorded start times of two successive API calls are at least
\* _min_interval apart, whichever instances made them, and, the lock being
\* released before the API call, every caller waiting for the lock
\* eventually reaches its API call.
C30_SharedRateLimit ==
    /\ [][lex_in.recorded' # lex_in.recorded
             => lex_in.last_call_time' - lex_in.last_call_time >= min_interval]_vars
    /\ \A t \in RateThreads :
           (lex_out[t].pc = "acquire") ~> (lex_out[t].pc = "api")

\* Two calls on different instances have been recorded, the second after its
\* thread slept inside the lock, while the first call's API call is still
\* running.
C30_Witness ==
    /\ lex_in.recorded = 2
    /\ lex_out["t1"].pc = "api" /\ lex_out["t2"].pc = "api"
    /\ lex_out["t1"].instance # lex_out["t2"].instance
    /\ lex_out["t2"].wake = lex_in.last_call_time
    /\ lex_out["t2"].wake > lex_out["t2"].now

============================================================================
